---- MODULE Spec2Model ----
(***************************************************************************)
(* A model of nano-vectordb-cpp: the single-tenant vector store            *)
(* (include/NanoVectorDB.hpp, include/helper.hpp) and the multi-tenant     *)
(* cache manager (include/MultiTenantNanoVDB.hpp, first revision in the    *)
(* file, the one with lazy loading and eviction-with-persist).             *)
(*                                                                         *)
(* Numbers.  A float is modelled exactly as a scalar [n, d2] that stands   *)
(* for n / sqrt(d2).  The vectors callers pass in have integer components  *)
(* (d2 = 1); normalize() maps an integer direction to the unit vector      *)
(* p / sqrt(p.p) with p the primitive integer vector of that direction.    *)
(* Floating-point rounding is not modelled.                                *)
(***************************************************************************)
EXTENDS Integers, Sequences, FiniteSets, TLC

VARIABLES
  db,              \* the store under test: one NanoVectorDB instance
  last,            \* the last call made on db: operation, arguments, outcome
  stored_blob,     \* history: the blob last stored in db, or loaded, else the empty object
  metric_,         \* MultiTenantNanoVDB::metric_
  max_capacity_,   \* MultiTenantNanoVDB::max_capacity_
  storage_dir_,    \* MultiTenantNanoVDB::storage_dir_
  default_metric_, \* MultiTenantNanoVDB::default_metric_ ("none" when not set)
  storage_,        \* MultiTenantNanoVDB::storage_: tenant id -> cached store
  cache_queue_,    \* MultiTenantNanoVDB::cache_queue_
  files,           \* the tenant files under storage_dir_: tenant id -> document
  dir_exists,      \* whether the directory storage_dir_ exists
  issued,          \* history: the ids create_tenant has returned
  deleted,         \* history: the ids delete_tenant has deleted
  inserted,        \* history: the cached ids, in the order they entered the cache
  evicted_state,   \* history: what an evicted tenant held when it was evicted
  mutations,       \* history: number of calls made through tenant handles
  handle,          \* a shared_ptr a caller kept from get_tenant, and its object once evicted
  mlast            \* the last call made on the manager

storevars == <<db, last, stored_blob>>
mtvars == <<metric_, max_capacity_, storage_dir_, default_metric_, storage_, cache_queue_, files,
            dir_exists, issued, deleted, inserted, evicted_state, mutations, handle, mlast>>
vars == <<db, last, stored_blob, metric_, max_capacity_, storage_dir_, default_metric_, storage_, cache_queue_,
          files, dir_exists, issued, deleted, inserted, evicted_state, mutations, handle, mlast>>

(***************************************************************************)
(* Bounds of the model                                                     *)
(***************************************************************************)
Dim == 2            \* embedding_dim the store is constructed with
MaxBatch == 2       \* longest upsert batch
MaxIds == 2         \* longest id list passed to get / remove
MaxTenants == 3     \* number of tenant ids create_tenant can hand out
MaxCapacity == 2    \* largest max_capacity_ a manager is constructed with
MaxMutations == 1   \* calls made through tenant handles in one run

(***************************************************************************)
(* Scalars and vectors                                                     *)
(***************************************************************************)
Sc(k) == [n |-> k, d2 |-> 1]

Raw(s) == [i \in 1..Len(s) |-> Sc(s[i])]

Abs(k) == IF k < 0 THEN 0 - k ELSE k

RECURSIVE Gcd(_, _)
Gcd(a, b) == IF b = 0 THEN a ELSE Gcd(b, a % b)

RECURSIVE GcdOfPrefix(_, _)
GcdOfPrefix(v, k) == IF k = 0 THEN 0 ELSE Gcd(Abs(v[k].n), GcdOfPrefix(v, k - 1))

RECURSIVE SumSqPrefix(_, _, _)
SumSqPrefix(v, g, k) ==
  IF k = 0 THEN 0 ELSE (v[k].n \div g) * (v[k].n \div g) + SumSqPrefix(v, g, k - 1)

\* Eigen norm() == 0
ZeroNorm(v) == \A i \in 1..Len(v) : v[i].n = 0

\* helper.hpp normalize(v): v / v.norm(); the caller has excluded the throws
UnitOf(v) ==
  LET g == GcdOfPrefix(v, Len(v))
      s == SumSqPrefix(v, g, Len(v))
  IN  [i \in 1..Len(v) |-> [n |-> v[i].n \div g, d2 |-> s]]

\* helper.hpp normalize(): "empty" and "zero" are the two throws
normalize(v) ==
  IF Len(v) = 0 THEN [ok |-> FALSE, err |-> "empty", v |-> v]
  ELSE IF ZeroNorm(v) THEN [ok |-> FALSE, err |-> "zero", v |-> v]
  ELSE [ok |-> TRUE, err |-> "", v |-> UnitOf(v)]

\* helper.hpp normalize_rows(m)
normalize_rows(m) ==
  IF \E i \in 1..Len(m) : ZeroNorm(m[i])
  THEN [ok |-> FALSE, err |-> "zero", m |-> m]
  ELSE [ok |-> TRUE, err |-> "", m |-> [i \in 1..Len(m) |-> UnitOf(m[i])]]

(***************************************************************************)
(* hash_vector: the content hash used as the id of an unlabeled record.    *)
(* size_t is narrowed to 16 bits; std::hash<float> is a library function,  *)
(* modelled as a fixed map that sends 0.0 to 0.                            *)
(***************************************************************************)
HashMod == 65536
Golden == 31161     \* 0x9e3779b9 narrowed to 16 bits (0x79b9)

RECURSIVE Xor(_, _)
Xor(a, b) ==
  IF a = 0 THEN b
  ELSE IF b = 0 THEN a
  ELSE ((a + b) % 2) + 2 * Xor(a \div 2, b \div 2)

hasher(x) == IF x.n = 0 THEN 0 ELSE (Abs(x.n) * 40503 + x.d2 * 9973 + (IF x.n < 0 THEN 1 ELSE 0)) % HashMod

HexDigit == <<"0", "1", "2", "3", "4", "5", "6", "7", "8", "9", "a", "b", "c", "d", "e", "f">>

RECURSIVE ToHex(_)
ToHex(k) == IF k < 16 THEN HexDigit[k + 1] ELSE ToHex(k \div 16) \o HexDigit[(k % 16) + 1]

RECURSIVE HashFold(_, _)
HashFold(v, k) ==
  IF k = 0 THEN 0
  ELSE LET h == HashFold(v, k - 1)
       IN  Xor(h, (hasher(v[k]) + Golden + ((h * 64) % HashMod) + (h \div 4)) % HashMod)

hash_vector(v) == ToHex(HashFold(v, Len(v)))

(***************************************************************************)
(* The inputs the callers draw from                                        *)
(***************************************************************************)
E1 == Raw([i \in 1..Dim |-> IF i = 1 THEN 1 ELSE 0])
E2 == Raw([i \in 1..Dim |-> IF i = Dim THEN 2 ELSE 0])
Zero == Raw([i \in 1..Dim |-> 0])
Short == Raw([i \in 1..(Dim - 1) |-> 1])

GoodVectors == {E1, E2, Zero}
InputVectors == GoodVectors \cup {Short}
\* unlabeled entries carry E1 or the zero vector (which a cosine store rejects);
\* labeled ones carry E1, E2 or a vector of the wrong length
Inputs == [id : {""}, vector : {E1, Zero}] \cup [id : {"a"}, vector : {E1, E2, Short}]
Batches == UNION {[1..k -> Inputs] : k \in 0..MaxBatch}

LookupIds == {"a", "zz", hash_vector(E1), hash_vector(Zero)}
IdLists == UNION {[1..k -> LookupIds] : k \in 0..MaxIds}

Metrics == {"cosine", "l2"}

(***************************************************************************)
(* The store: NanoVectorDB                                                 *)
(***************************************************************************)
EmptyObject == "{}"
NullJson == "null"

\* NanoVectorDB(dim, metric, file) when the storage file does not exist
EmptyDB(dim, metric) ==
  [embedding_dim_ |-> dim, metric_ |-> metric, metric_strategy_ |-> "none",
   data_ |-> <<>>, matrix_ |-> <<>>, additional_data_ |-> EmptyObject]

\* a variant of Put in which the first entry with an id wins
PutKeepFirst(idx, id, entry) ==
  [k \in (DOMAIN idx) \cup {id} |-> IF k \in DOMAIN idx THEN idx[k] ELSE entry]

\* index_datas[id] = entry
Put(idx, id, entry) ==
  [k \in (DOMAIN idx) \cup {id} |-> IF k = id THEN entry ELSE idx[k]]

\* a variant of BuildIndex in which the id of an unlabeled entry also depends
\* on its position in the batch
RECURSIVE BuildIndexByPosition(_, _, _)
BuildIndexByPosition(datas, i, idx) ==
  IF i > Len(datas) THEN idx
  ELSE LET id == IF datas[i].id = "" THEN hash_vector(datas[i].vector) \o ToHex(i)
                 ELSE datas[i].id
       IN  BuildIndexByPosition(datas, i + 1,
                                Put(idx, id, [id |-> id, vector |-> datas[i].vector]))

\* first loop of upsert, from entry i on: ids assigned, batch deduplicated
RECURSIVE BuildIndex(_, _, _)
BuildIndex(datas, i, idx) ==
  IF i > Len(datas) THEN idx
  ELSE LET id == IF datas[i].id = "" THEN hash_vector(datas[i].vector) ELSE datas[i].id
       IN  BuildIndex(datas, i + 1, Put(idx, id, [id |-> id, vector |-> datas[i].vector]))

EmptyIndex == [k \in {} |-> 0]

\* a variant of the dimension check that looks at the first entry only
UpsertDimMismatchFirstOnly(d, datas) ==
  Len(datas) > 0 /\ Len(datas[1].vector) # d.embedding_dim_

\* the dimension check of the first loop
UpsertDimMismatch(d, datas) ==
  \E i \in 1..Len(datas) : Len(datas[i].vector) # d.embedding_dim_

\* the cosine pass over index_datas
NormalizeIndex(d, idx) ==
  IF d.metric_ = "cosine"
  THEN [k \in DOMAIN idx |-> [id |-> k, vector |-> normalize(idx[k].vector).v]]
  ELSE idx

NormalizeIndexThrows(d, idx) ==
  d.metric_ = "cosine" /\ \E k \in DOMAIN idx : ~normalize(idx[k].vector).ok

UpsertThrows(d, datas) ==
  \/ UpsertDimMismatch(d, datas)
  \/ NormalizeIndexThrows(d, BuildIndex(datas, 1, EmptyIndex))

\* second loop of upsert: rows of existing ids are overwritten in place
OverwriteExisting(d, idx) ==
  [d EXCEPT
     !.data_ = [i \in 1..Len(d.data_) |->
                  IF d.data_[i].id \in DOMAIN idx THEN idx[d.data_[i].id] ELSE d.data_[i]],
     !.matrix_ = [i \in 1..Len(d.matrix_) |->
                  IF i <= Len(d.data_) /\ d.data_[i].id \in DOMAIN idx
                  THEN idx[d.data_[i].id].vector ELSE d.matrix_[i]]]

\* the ids the second loop put into `updated`
UpdatedIds(d, idx) == {d.data_[i].id : i \in 1..Len(d.data_)} \cap DOMAIN idx

\* the iteration orders of an unordered_map over the keys in S
Orders(S) ==
  {o \in [1..Cardinality(S) -> S] : \A i, j \in 1..Cardinality(S) : o[i] = o[j] => i = j}

\* a variant of AppendNew that forgets to grow the matrix
AppendNewNoRow(d, idx, order) ==
  [d EXCEPT !.data_ = d.data_ \o [i \in 1..Len(order) |-> idx[order[i]]]]

\* a variant of AppendNew that puts the new records in front
AppendNewInFront(d, idx, order) ==
  [d EXCEPT
     !.data_ = [i \in 1..Len(order) |-> idx[order[i]]] \o d.data_,
     !.matrix_ = [i \in 1..Len(order) |-> idx[order[i]].vector] \o d.matrix_]

\* third loop of upsert: the ids not updated are appended in iteration order
AppendNew(d, idx, order) ==
  [d EXCEPT
     !.data_ = d.data_ \o [i \in 1..Len(order) |-> idx[order[i]]],
     !.matrix_ = d.matrix_ \o [i \in 1..Len(order) |-> idx[order[i]].vector]]

\* every store upsert can leave behind when it returns normally
UpsertResults(d, datas) ==
  LET idx == NormalizeIndex(d, BuildIndex(datas, 1, EmptyIndex))
      upd == OverwriteExisting(d, idx)
  IN  {AppendNew(upd, idx, o) : o \in Orders((DOMAIN idx) \ UpdatedIds(d, idx))}

\* a variant of get that walks the requested ids instead of the store
RECURSIVE GetInCallerOrder(_, _, _)
GetInCallerOrder(data, ids, i) ==
  IF i > Len(ids) THEN <<>>
  ELSE SelectSeq(data, LAMBDA r : r.id = ids[i]) \o GetInCallerOrder(data, ids, i + 1)

\* NanoVectorDB::get
RECURSIVE GetFrom(_, _, _)
GetFrom(data, ids, i) ==
  IF i > Len(data) THEN <<>>
  ELSE (IF \E j \in 1..Len(ids) : ids[j] = data[i].id THEN <<data[i]>> ELSE <<>>)
       \o GetFrom(data, ids, i + 1)

get(d, ids) == GetFrom(d.data_, ids, 1)

\* NanoVectorDB::remove: keep_indices
RECURSIVE KeepIndices(_, _, _)
KeepIndices(data, idset, i) ==
  IF i > Len(data) THEN <<>>
  ELSE (IF data[i].id \in idset THEN <<>> ELSE <<i>>) \o KeepIndices(data, idset, i + 1)

\* a variant of remove that fills the hole of the first removed record with the
\* last record instead of compacting in order
RemoveResultSwapLast(d, ids) ==
  LET idset == {ids[j] : j \in 1..Len(ids)}
      keep == KeepIndices(d.data_, idset, 1)
      n == Len(keep)
      perm == IF n >= 2 /\ n < Len(d.data_) /\ keep[1] # 1
              THEN [i \in 1..n |-> IF i = 1 THEN keep[n] ELSE keep[i - 1]]
              ELSE keep
  IN  [d EXCEPT !.data_ = [i \in 1..n |-> d.data_[perm[i]]],
                !.matrix_ = [i \in 1..n |-> d.matrix_[perm[i]]]]

RemoveResult(d, ids) ==
  LET idset == {ids[j] : j \in 1..Len(ids)}
      keep == KeepIndices(d.data_, idset, 1)
  IN  [d EXCEPT !.data_ = [i \in 1..Len(keep) |-> d.data_[keep[i]]],
                !.matrix_ = [i \in 1..Len(keep) |-> d.matrix_[keep[i]]]]

\* the check at the end of remove, made after data_ and matrix_ were assigned
RemoveThrows(d, ids) ==
  Len(RemoveResult(d, ids).matrix_) # Len(RemoveResult(d, ids).data_)

\* NanoVectorDB::size
size(d) == Len(d.data_)

\* NanoVectorDB::query: the outcome of the call ("ok" or the throw)
QueryStatus(d, q) ==
  IF Len(q) # d.embedding_dim_ THEN "dim"
  ELSE IF d.metric_strategy_ # "none" THEN "ok"
  ELSE IF d.metric_ = "cosine" THEN (IF normalize(q).ok THEN "ok" ELSE normalize(q).err)
  ELSE "ok"

(***************************************************************************)
(* Scores.  A score is a scalar n / sqrt(d2) like every float of the model; *)
(* x -> x * |x| is increasing, so scalars are compared by their signed      *)
(* squares n * |n| / d2.                                                    *)
(***************************************************************************)
ScLess(a, b) == a.n * Abs(a.n) * b.d2 < b.n * Abs(b.n) * a.d2
ScEq(a, b) == a.n * Abs(a.n) * b.d2 = b.n * Abs(b.n) * a.d2
Neg(a) == [n |-> 0 - a.n, d2 |-> a.d2]

\* the components of a vector share their d2 (Raw and UnitOf build them so)
D2Of(v) == IF Len(v) = 0 THEN 1 ELSE v[1].d2

RECURSIVE DotN(_, _, _)
DotN(a, b, k) == IF k = 0 THEN 0 ELSE a[k].n * b[k].n + DotN(a, b, k - 1)

RECURSIVE SumSqDiffN(_, _, _)
SumSqDiffN(a, b, k) ==
  IF k = 0 THEN 0 ELSE (a[k].n - b[k].n) * (a[k].n - b[k].n) + SumSqDiffN(a, b, k - 1)

\* Eigen a.dot(b)
Dot(a, b) == [n |-> DotN(a, b, Len(a)), d2 |-> D2Of(a) * D2Of(b)]

\* CosineMetric::distance(a, b): 1 - sim, kept as the sim it is one minus of;
\* sim = a.dot(b) / (a.norm() * b.norm()), in which the d2 of a and b cancel
CosineDistance(a, b) ==
  IF DotN(a, a, Len(a)) * DotN(b, b, Len(b)) = 0
  THEN [one_minus |-> Sc(0)]
  ELSE [one_minus |-> [n |-> DotN(a, b, Len(a)),
                       d2 |-> DotN(a, a, Len(a)) * DotN(b, b, Len(b))]]

\* L2Metric::distance(a, b) = (a - b).squaredNorm(), for a and b with the same
\* d2 (the vectors an l2 query meets here have integer components)
L2Distance(a, b) == [n |-> SumSqDiffN(a, b, Len(a)), d2 |-> D2Of(a) * D2Of(b)]

(***************************************************************************)
(* NanoVectorDB::query and cosine_query                                    *)
(***************************************************************************)
DefaultTopK == 10
NoThreshold == [given |-> FALSE, value |-> Sc(0)]
Threshold(x) == [given |-> TRUE, value |-> x]
NoFilter == "none"

\* the filter callbacks the callers pass: none, or one that rejects the id "a"
Accepts(filter, rec) == filter = NoFilter \/ (filter = "not_a" /\ rec.id # "a")

\* the indices loop: the candidates, in store order
RECURSIVE Indices(_, _, _)
Indices(d, filter, i) ==
  IF i > Len(d.data_) THEN <<>>
  ELSE (IF Accepts(filter, d.data_[i]) THEN <<i>> ELSE <<>>) \o Indices(d, filter, i + 1)

\* a variant of StrategyScore that returns the distance as the score
StrategyScoreUnsigned(d, q, idx) ==
  IF d.metric_strategy_ = "cosine" THEN CosineDistance(q, d.data_[idx].vector).one_minus
  ELSE L2Distance(q, d.data_[idx].vector)

\* query, strategy branch: score = is_cosine ? (1 - dist) : (-dist)
StrategyScore(d, q, idx) ==
  IF d.metric_strategy_ = "cosine" THEN CosineDistance(q, d.data_[idx].vector).one_minus
  ELSE Neg(L2Distance(q, d.data_[idx].vector))

\* cosine_query: score = matrix_.row(idx).dot(normalize(query))
CosineQueryScore(d, q, idx) == Dot(d.matrix_[idx], normalize(q).v)

\* the scored list before the sort
Scored(d, q, filter) ==
  LET ind == Indices(d, filter, 1)
  IN  [k \in 1..Len(ind) |->
         [idx |-> ind[k],
          score |-> IF d.metric_strategy_ # "none" THEN StrategyScore(d, q, ind[k])
                    ELSE CosineQueryScore(d, q, ind[k])]]

\* a variant of SortedOrders that leaves the scored list in store order
UnsortedOrders(scored) == {[k \in 1..Len(scored) |-> k]}

\* std::sort by a.second > b.second: the permutations of the scored list in
\* which no entry comes before one of greater score (the sort is not stable)
SortedOrders(scored) ==
  {o \in Orders(1..Len(scored)) :
     \A i, j \in 1..Len(scored) : i < j => ~ScLess(scored[o[i]].score, scored[o[j]].score)}

\* a variant of Emit that ignores the threshold
RECURSIVE EmitNoThreshold(_, _, _, _, _, _)
EmitNoThreshold(d, scored, order, top_k, threshold, i) ==
  IF i > top_k \/ i > Len(scored) THEN <<>>
  ELSE <<[data |-> d.data_[scored[order[i]].idx], score |-> scored[order[i]].score]>>
       \o EmitNoThreshold(d, scored, order, top_k, threshold, i + 1)

\* the result loop: the first min(top_k, size) entries, cut at the first score
\* below the threshold
RECURSIVE Emit(_, _, _, _, _, _)
Emit(d, scored, order, top_k, threshold, i) ==
  IF i > top_k \/ i > Len(scored) THEN <<>>
  ELSE IF threshold.given /\ ScLess(scored[order[i]].score, threshold.value) THEN <<>>
  ELSE <<[data |-> d.data_[scored[order[i]].idx], score |-> scored[order[i]].score]>>
       \o Emit(d, scored, order, top_k, threshold, i + 1)

\* whether query takes a branch that scores and sorts
QueryScores(d) == d.metric_strategy_ # "none" \/ d.metric_ = "cosine"

\* the orders std::sort can leave the scored list in during query(q, ..., filter)
QueryOrders(d, q, filter) ==
  IF QueryScores(d) THEN SortedOrders(Scored(d, q, filter)) ELSE {<<>>}

\* what query returns when it does not throw and std::sort produced `order`
QueryResult(d, q, top_k, threshold, filter, order) ==
  IF QueryScores(d) THEN Emit(d, Scored(d, q, filter), order, top_k, threshold, 1)
  ELSE <<>>

\* the record of a call on the store
NoCall ==
  [op |-> "init", status |-> "ok", datas |-> <<>>, ids |-> <<>>, q |-> <<>>,
   pre |-> EmptyDB(Dim, "cosine"), result |-> <<>>]

Call(op, status, datas, ids, q, pre, result) ==
  [op |-> op, status |-> status, datas |-> datas, ids |-> ids, q |-> q,
   pre |-> pre, result |-> result]

\* the record of a query call: its arguments, the order std::sort left, the result
QueryCall(status, q, top_k, threshold, filter, order, pre, result) ==
  [op |-> "query", status |-> status, datas |-> <<>>, ids |-> <<>>, q |-> q,
   pre |-> pre, result |-> result,
   top_k |-> top_k, threshold |-> threshold, filter |-> filter, order |-> order]

\* the record of a call that takes or returns the additional data
BlobCall(op, status, blob, pre) ==
  [op |-> op, status |-> status, datas |-> <<>>, ids |-> <<>>, q |-> <<>>,
   pre |-> pre, result |-> <<>>, blob |-> blob]

\* the record of an initialize_metric call
MetricCall(status, strategy, pre) ==
  [op |-> "initialize_metric", status |-> status, datas |-> <<>>, ids |-> <<>>, q |-> <<>>,
   pre |-> pre, result |-> <<>>, strategy |-> strategy]

(***************************************************************************)
(* Persistence of a store: NanoVectorDB::save and the loading constructor  *)
(***************************************************************************)
\* no file at the path.  A document is the JSON object in a storage file:
\* has_x says whether the object has the field x.
NoFile ==
  [exists |-> FALSE, has_embedding_dim |-> FALSE, embedding_dim |-> 0,
   has_matrix |-> FALSE, matrix |-> <<>>, has_data |-> FALSE, data |-> <<>>,
   has_additional_data |-> FALSE, additional_data |-> NullJson]

\* helper.hpp array_to_buffer_string: the floats of the matrix in Eigen's
\* (column-major) storage order; the base64 text is not modelled
array_to_buffer_string(m) ==
  IF Len(m) = 0 \/ Len(m[1]) = 0 THEN <<>>
  ELSE [k \in 1..(Len(m) * Len(m[1])) |->
          m[((k - 1) % Len(m)) + 1][((k - 1) \div Len(m)) + 1]]

\* helper.hpp buffer_string_to_array: every float is 4 bytes
buffer_string_to_array(buf, dim) ==
  IF dim <= 0 THEN [ok |-> FALSE, err |-> "dim", m |-> <<>>]
  ELSE IF Len(buf) = 0 THEN [ok |-> TRUE, err |-> "", m |-> <<>>]
  ELSE IF (4 * Len(buf)) % (dim * 4) # 0 THEN [ok |-> FALSE, err |-> "length", m |-> <<>>]
  ELSE LET rows == (4 * Len(buf)) \div (dim * 4)
       IN  [ok |-> TRUE, err |-> "",
            m |-> [r \in 1..rows |-> [c \in 1..dim |-> buf[(c - 1) * rows + r]]]]

\* NanoVectorDB::save: the document written to storage_file_
save_document(d) ==
  [exists |-> TRUE,
   has_embedding_dim |-> TRUE,
   embedding_dim |-> d.embedding_dim_,
   has_matrix |-> TRUE,
   matrix |-> array_to_buffer_string(d.matrix_),
   has_data |-> TRUE,
   data |-> [i \in 1..Len(d.data_) |-> [has_id |-> TRUE, id |-> d.data_[i].id]],
   has_additional_data |-> d.additional_data_ # NullJson,
   additional_data |-> d.additional_data_]

\* NanoVectorDB::pre_process
pre_process(d) ==
  IF d.metric_ = "cosine" /\ Len(d.matrix_) > 0
  THEN [ok |-> normalize_rows(d.matrix_).ok,
        db |-> [d EXCEPT !.matrix_ = normalize_rows(d.matrix_).m]]
  ELSE [ok |-> TRUE, db |-> d]

\* a variant of load_storage that takes a missing file for a document
load_storage_missing_is_document(doc) ==
  [found |-> TRUE, ok |-> doc.exists /\ doc.has_matrix]

\* helper.hpp load_storage: nothing is found where no file exists; a document
\* without the matrix field throws
load_storage(doc) == [found |-> doc.exists, ok |-> ~doc.exists \/ doc.has_matrix]

\* a construction that failed with err: no store comes out of it
Failed(dim, metric, err) == [ok |-> FALSE, err |-> err, db |-> EmptyDB(dim, metric)]

\* a variant of the dimension check that accepts any recorded dimension
DimMismatchNever(dim, doc) == FALSE

\* the check of lines 126-134: made only on a document that has the field
DimMismatch(dim, doc) == doc.has_embedding_dim /\ doc.embedding_dim # dim

\* the loop of lines 109-120: the first data entry that has no id or whose
\* row is read past the last row of the matrix, 0 if there is none
FirstBadEntry(doc, rows) ==
  LET bad == {i \in 1..Len(doc.data) : ~doc.data[i].has_id \/ i > rows}
  IN  IF bad = {} THEN 0 ELSE CHOOSE i \in bad : \A j \in bad : i <= j

\* NanoVectorDB::NanoVectorDB(embedding_dim, metric, storage_file) with doc the
\* content of storage_file.  A data list longer than the matrix reads a row out
\* of range (line 118): err is "out_of_range" and the construction is taken to
\* abort there; ConstructOutcomes gives every outcome of that read.
Construct(dim, metric, doc) ==
  IF ~load_storage(doc).found THEN [ok |-> TRUE, err |-> "", db |-> EmptyDB(dim, metric)]
  ELSE IF ~load_storage(doc).ok \/ ~doc.has_matrix THEN Failed(dim, metric, "matrix")
  ELSE LET dec == buffer_string_to_array(doc.matrix, dim)
           first == FirstBadEntry(doc, Len(dec.m))
           loaded ==
             [embedding_dim_ |-> dim, metric_ |-> metric, metric_strategy_ |-> "none",
              data_ |-> [i \in 1..Len(doc.data) |->
                           [id |-> doc.data[i].id,
                            vector |-> IF i <= Len(dec.m) THEN dec.m[i] ELSE <<>>]],
              matrix_ |-> dec.m,
              additional_data_ |-> IF doc.has_additional_data THEN doc.additional_data
                                   ELSE EmptyObject]
       IN  IF ~dec.ok THEN Failed(dim, metric, dec.err)
           ELSE IF ~doc.has_data THEN Failed(dim, metric, "data")
           ELSE IF first # 0
             THEN Failed(dim, metric, IF doc.data[first].has_id THEN "out_of_range" ELSE "id")
           ELSE IF DimMismatch(dim, doc) THEN Failed(dim, metric, "embedding_dim")
           ELSE IF Len(dec.m) # Len(doc.data) THEN Failed(dim, metric, "rows")
           ELSE IF ~pre_process(loaded).ok THEN Failed(dim, metric, "zero")
           ELSE [ok |-> TRUE, err |-> "", db |-> pre_process(loaded).db]

\* the exception the constructor reaches when the read out of range returns
\* and the loop goes on: a later entry without id, else the dimension check,
\* else the row count, which differs since the data list is the longer one
ThrowAfterOutOfRange(dim, doc) ==
  IF \E i \in 1..Len(doc.data) : ~doc.data[i].has_id THEN "id"
  ELSE IF DimMismatch(dim, doc) THEN "embedding_dim"
  ELSE "rows"

\* every outcome of the constructor.  The read of a row out of range is
\* undefined: it aborts the program or returns and the constructor goes on.
\* Eigen::MatrixXf(0, embedding_dim_) with a negative dimension (line 143) is
\* undefined as well: Eigen's assertion aborts, or the matrix is built and
\* the constructor returns.
ConstructOutcomes(dim, metric, doc) ==
  IF Construct(dim, metric, doc).err = "out_of_range"
  THEN {Construct(dim, metric, doc), Failed(dim, metric, ThrowAfterOutOfRange(dim, doc))}
  ELSE IF ~load_storage(doc).found /\ dim < 0
  THEN {Construct(dim, metric, doc), Failed(dim, metric, "abort")}
  ELSE {Construct(dim, metric, doc)}

\* NanoVectorDB::NanoVectorDB(embedding_dim, metric, storage_file, metric_strategy,
\* storage_strategy) with no storage strategy: the same loading code, and the
\* metric strategy kept as passed
ConstructWith(dim, metric, strategy, doc) ==
  LET c == Construct(dim, metric, doc)
  IN  [c EXCEPT !.db = [c.db EXCEPT !.metric_strategy_ = strategy]]

\* the storage strategies a store can be constructed with: none, FileStorage,
\* MMapStorage, SQLiteStorage
StorageStrategies == {"none", "file", "mmap", "sqlite"}

\* IStorage::read and IStorageRecords::read_records at a path that holds doc, a
\* JSON document or nothing.  FileStorage and MMapStorage throw when the path
\* cannot be opened and return the bytes of the document otherwise;
\* SQLiteStorage opens a missing path as an empty database, from which it
\* loads nothing, and throws on a file that is not a database.
storage_read(storage, doc) ==
  IF storage = "sqlite"
  THEN [throws |-> doc.exists, loaded |-> FALSE]
  ELSE [throws |-> ~doc.exists, loaded |-> doc.exists]

\* NanoVectorDB::NanoVectorDB(embedding_dim, metric, storage_file, metric_strategy,
\* storage_strategy): every outcome.  When the strategy's read throws the
\* constructor falls back to load_storage; what the strategy loaded goes
\* through the same validation as what load_storage returns.
ConstructWithStorage(dim, metric, strategy, storage, doc) ==
  LET r == storage_read(storage, doc)
      outcomes == IF storage = "none" \/ r.throws \/ r.loaded
                  THEN ConstructOutcomes(dim, metric, doc)
                  ELSE ConstructOutcomes(dim, metric, NoFile)
  IN  {[c EXCEPT !.db = [c.db EXCEPT !.metric_strategy_ = strategy]] : c \in outcomes}

\* std::dynamic_pointer_cast<IStorageRecords>(storage_strategy_): SQLiteStorage
\* is the row-wise backend, FileStorage and MMapStorage are byte-oriented
IStorageRecords(storage) == storage = "sqlite"

\* no rows: the file holds no database
NoRows == [ok |-> FALSE, records |-> <<>>, embedding_dim |-> 0, additional |-> NullJson]

\* SQLiteStorage::write_records: one row per record and the two meta keys, in
\* one transaction that is rolled back when a vector has another length than
\* embedding_dim or an id comes twice
write_records(records, embedding_dim, additional) ==
  [ok |-> /\ \A i \in 1..Len(records) : Len(records[i].vector) = embedding_dim
          /\ \A i, j \in 1..Len(records) : records[i].id = records[j].id => i = j,
   records |-> records, embedding_dim |-> embedding_dim, additional |-> additional]

\* a variant of save that writes the document whatever the backend is
db_save_always_document(d, storage) ==
  [ok |-> TRUE, via |-> IF storage = "none" THEN "ofstream" ELSE "write",
   shape |-> "document", rows |-> NoRows, doc |-> save_document(d)]

\* NanoVectorDB::save with storage_strategy_ = storage: the member function it
\* writes through and what storage_file_ holds afterwards
db_save(d, storage) ==
  IF storage # "none" /\ IStorageRecords(storage)
  THEN LET w == write_records(d.data_, d.embedding_dim_, d.additional_data_)
       IN  [ok |-> w.ok, via |-> "write_records", shape |-> "records", rows |-> w,
            doc |-> NoFile]
  ELSE [ok |-> TRUE, via |-> IF storage = "none" THEN "ofstream" ELSE "write",
        shape |-> "document", rows |-> NoRows, doc |-> save_document(d)]

\* the constructor on what read_records returned (lines 178-183, 210-224 and
\* the checks that follow): the records become data_ and the rows of matrix_
ConstructFromRecords(dim, metric, lr) ==
  LET loaded ==
        [embedding_dim_ |-> dim, metric_ |-> metric, metric_strategy_ |-> "none",
         data_ |-> lr.records,
         matrix_ |-> [i \in 1..Len(lr.records) |-> lr.records[i].vector],
         additional_data_ |-> lr.additional]
  IN  IF lr.records = <<>> /\ lr.embedding_dim <= 0
      THEN [ok |-> TRUE, err |-> "", db |-> EmptyDB(dim, metric)]
      ELSE IF \E i \in 1..Len(lr.records) : Len(lr.records[i].vector) # dim
        THEN Failed(dim, metric, "record_dim")
      ELSE IF lr.records = <<>> /\ ~buffer_string_to_array(<<>>, dim).ok
        THEN Failed(dim, metric, "dim")
      ELSE IF lr.embedding_dim # dim THEN Failed(dim, metric, "embedding_dim")
      ELSE IF ~pre_process(loaded).ok THEN Failed(dim, metric, "zero")
      ELSE [ok |-> TRUE, err |-> "", db |-> pre_process(loaded).db]

\* NanoVectorDB::NanoVectorDB(embedding_dim, metric, storage_file, metric_strategy,
\* storage_strategy) on the file f that save left: the function the content
\* came through and the store.  read_records throws on a file that is not a
\* database, read returns the bytes, and a throw falls back to load_storage,
\* which cannot parse a database file.
ConstructFromSaved(dim, metric, strategy, storage, f) ==
  LET r == IF storage # "none" /\ IStorageRecords(storage) /\ f.shape = "records"
           THEN [via |-> "read_records", c |-> ConstructFromRecords(dim, metric, f.rows)]
           ELSE IF f.shape = "records"
           THEN [via |-> "load_storage", c |-> Failed(dim, metric, "parse")]
           ELSE IF storage = "none" \/ IStorageRecords(storage)
           THEN [via |-> "load_storage", c |-> Construct(dim, metric, f.doc)]
           ELSE [via |-> "read", c |-> Construct(dim, metric, f.doc)]
  IN  [r EXCEPT !.c.db.metric_strategy_ = strategy]

\* NanoVectorDB::initialize_metric(strategy): strategy is "cosine" or "l2"
initialize_metric(d, strategy) ==
  pre_process([d EXCEPT !.metric_strategy_ = strategy, !.metric_ = strategy])

\* a variant of store_additional_data that keeps the old blob when given null
store_additional_data_skip_null(d, blob) ==
  IF blob = NullJson THEN d ELSE [d EXCEPT !.additional_data_ = blob]

\* NanoVectorDB::store_additional_data
store_additional_data(d, blob) == [d EXCEPT !.additional_data_ = blob]

(***************************************************************************)
(* The manager: MultiTenantNanoVDB                                         *)
(***************************************************************************)
TenantIds == 1..MaxTenants

\* what set_default_metric has been called with before the first tenant
DefaultMetrics == {"none", "l2"}
NoTenant == 0

Blobs == {NullJson, EmptyObject, "{\"a\":1}"}
TenantBatches == {<<[id |-> "a", vector |-> E2]>>, <<[id |-> "a", vector |-> Zero]>>}

\* a variant of generate_uuid that hands out the id of a deleted tenant again
generate_uuid_reuses_deleted ==
  CHOOSE t \in TenantIds \ (issued \ deleted) :
    \A u \in TenantIds \ (issued \ deleted) : t <= u

\* generate_uuid: a fresh id; the ids are handed out in increasing order
generate_uuid == CHOOSE t \in TenantIds \ issued : \A u \in TenantIds \ issued : t <= u

\* a variant of contain_tenant that takes every id for a tenant
contain_tenant_always(tenant_id) == TRUE

\* a variant of contain_tenant that looks at the cache only
contain_tenant_cached_only(tenant_id) == tenant_id \in DOMAIN storage_

\* contain_tenant
contain_tenant(tenant_id) == tenant_id \in DOMAIN storage_ \/ files[tenant_id].exists

\* storage_.erase(id)
Erase(st, tenant_id) == [t \in (DOMAIN st) \ {tenant_id} |-> st[t]]

\* a variant of RemoveFromQueue that leaves the queue as it is
RemoveFromQueueKeeps(q, tenant_id) == q

\* cache_queue_.erase(std::remove(..., tenant_id), end)
RemoveFromQueue(q, tenant_id) == SelectSeq(q, LAMBDA t : t # tenant_id)

\* a variant of CacheFull that lets the cache grow one past the capacity
CacheFullOffByOne(st, cap) == Cardinality(DOMAIN st) > cap

\* load_tenant_in_cache: storage_.size() >= max_capacity_
CacheFull(st, cap) == Cardinality(DOMAIN st) >= cap

\* a variant of EvictId that takes the newest entry of the queue
EvictIdNewest(q) == IF q = <<>> THEN NoTenant ELSE q[Len(q)]

\* load_tenant_in_cache: evict_id = cache_queue_.front()
EvictId(q) == IF q = <<>> THEN NoTenant ELSE Head(q)

\* a variant of load_tenant_in_cache that writes the file of the tenant it inserts
load_tenant_in_cache_write_through(tenant_id, newdb) ==
  IF CacheFull(storage_, max_capacity_)
  THEN LET evict_id == EvictId(cache_queue_)
           saves == evict_id \in DOMAIN storage_
       IN  [storage_ |-> Put(Erase(storage_, evict_id), tenant_id, newdb),
            cache_queue_ |-> Append(Tail(cache_queue_), tenant_id),
            files |-> IF saves
                      THEN [files EXCEPT ![evict_id] = save_document(storage_[evict_id]),
                                         ![tenant_id] = save_document(newdb)]
                      ELSE [files EXCEPT ![tenant_id] = save_document(newdb)],
            dir_exists |-> TRUE,
            evicted |-> IF saves THEN evict_id ELSE NoTenant]
  ELSE [storage_ |-> Put(storage_, tenant_id, newdb),
        cache_queue_ |-> Append(cache_queue_, tenant_id),
        files |-> [files EXCEPT ![tenant_id] = save_document(newdb)],
        dir_exists |-> TRUE,
        evicted |-> NoTenant]

\* load_tenant_in_cache(tenant_id, newdb): the manager state it leaves
load_tenant_in_cache(tenant_id, newdb) ==
  IF CacheFull(storage_, max_capacity_)
  THEN LET evict_id == EvictId(cache_queue_)
           saves == evict_id \in DOMAIN storage_
       IN  [storage_ |-> Put(Erase(storage_, evict_id), tenant_id, newdb),
            cache_queue_ |-> Append(Tail(cache_queue_), tenant_id),
            files |-> IF saves
                      THEN [files EXCEPT ![evict_id] = save_document(storage_[evict_id])]
                      ELSE files,
            dir_exists |-> dir_exists \/ saves,
            evicted |-> IF saves THEN evict_id ELSE NoTenant]
  ELSE [storage_ |-> Put(storage_, tenant_id, newdb),
        cache_queue_ |-> Append(cache_queue_, tenant_id),
        files |-> files,
        dir_exists |-> dir_exists,
        evicted |-> NoTenant]

\* create_tenant: the store the new tenant gets
NewTenantDB ==
  IF default_metric_ = "none" THEN EmptyDB(Dim, metric_)
  ELSE initialize_metric(EmptyDB(Dim, metric_), default_metric_).db

\* the default storage_dir of the manager's constructor
StorageDir == "./nano_multi_tenant_storage"

\* a variant of the constructor that takes any storage_dir
MultiTenantNanoVDB_any_dir(embedding_dim, metric, max_capacity, storage_dir) ==
  IF embedding_dim <= 0 THEN [ok |-> FALSE, err |-> "embedding_dim"]
  ELSE IF max_capacity <= 0 THEN [ok |-> FALSE, err |-> "max_capacity"]
  ELSE [ok |-> TRUE, err |-> ""]

\* MultiTenantNanoVDB::MultiTenantNanoVDB: the checks of the constructor
MultiTenantNanoVDB(embedding_dim, metric, max_capacity, storage_dir) ==
  IF embedding_dim <= 0 THEN [ok |-> FALSE, err |-> "embedding_dim"]
  ELSE IF max_capacity <= 0 THEN [ok |-> FALSE, err |-> "max_capacity"]
  ELSE IF storage_dir = "" THEN [ok |-> FALSE, err |-> "storage_dir"]
  ELSE [ok |-> TRUE, err |-> ""]

NoSnapshot == [valid |-> FALSE, data_ |-> <<>>, additional_data_ |-> NullJson]
Snapshot(d) == [valid |-> TRUE, data_ |-> d.data_, additional_data_ |-> d.additional_data_]

\* the record of a manager call: `oldest` is the cached tenant that entered the
\* cache first and `expected` what the tenant held when evicted, before the call
MCall(op, id, status, evicted, loaded) ==
  [op |-> op, id |-> id, status |-> status, evicted |-> evicted, loaded |-> loaded,
   oldest |-> IF inserted = <<>> THEN NoTenant ELSE Head(inserted),
   expected |-> IF op = "get_tenant" THEN evicted_state[id] ELSE NoSnapshot]

NoMCall ==
  [op |-> "init", id |-> NoTenant, status |-> "ok", evicted |-> NoTenant,
   loaded |-> FALSE, oldest |-> NoTenant, expected |-> NoSnapshot]

\* the history variables after a call that inserted tenant_id into the cache
Inserted(r, tenant_id) ==
  /\ inserted' = SelectSeq(inserted, LAMBDA t : t \in DOMAIN r.storage_ /\ t # tenant_id)
                   \o <<tenant_id>>
  /\ evicted_state' = [t \in TenantIds |->
                          IF t = r.evicted THEN Snapshot(storage_[t])
                          ELSE IF t = tenant_id THEN NoSnapshot
                          ELSE evicted_state[t]]

\* no handle is kept by the caller
NoHandle ==
  [id |-> NoTenant, detached |-> FALSE, obj |-> EmptyDB(Dim, "cosine"), written |-> "unset"]

\* the store a handle points to: the cached store while the map shares it,
\* and the object the caller alone keeps alive once the map has dropped it
HandleObject == IF handle.detached THEN handle.obj ELSE storage_[handle.id]

\* storage_.erase(id) drops the map's reference only: a shared_ptr the caller
\* kept still points to the old object, which no later load puts back
HandleFollows ==
  handle' = IF handle.id # NoTenant /\ ~handle.detached /\ handle.id \notin DOMAIN storage_'
            THEN [handle EXCEPT !.detached = TRUE, !.obj = storage_[handle.id]]
            ELSE handle

MTInit ==
  /\ db = EmptyDB(Dim, "cosine")
  /\ last = NoCall
  /\ stored_blob = EmptyObject
  /\ metric_ \in Metrics
  /\ max_capacity_ \in {1, MaxCapacity}
  /\ storage_dir_ = StorageDir
  /\ default_metric_ \in DefaultMetrics
  /\ storage_ = [t \in {} |-> 0]
  /\ cache_queue_ = <<>>
  /\ files = [t \in TenantIds |-> NoFile]
  /\ dir_exists = FALSE
  /\ issued = {}
  /\ deleted = {}
  /\ inserted = <<>>
  /\ evicted_state = [t \in TenantIds |-> NoSnapshot]
  /\ mutations = 0
  /\ handle = NoHandle
  /\ mlast = NoMCall

MTIdle ==
  /\ metric_ = "cosine"
  /\ max_capacity_ = 1
  /\ storage_dir_ = StorageDir
  /\ default_metric_ = "none"
  /\ storage_ = [t \in {} |-> 0]
  /\ cache_queue_ = <<>>
  /\ files = [t \in TenantIds |-> NoFile]
  /\ dir_exists = FALSE
  /\ issued = {}
  /\ deleted = {}
  /\ inserted = <<>>
  /\ evicted_state = [t \in TenantIds |-> NoSnapshot]
  /\ mutations = 0
  /\ handle = NoHandle
  /\ mlast = NoMCall

create_tenant ==
  /\ issued # TenantIds
  /\ LET tenant_id == generate_uuid
         r == load_tenant_in_cache(tenant_id, NewTenantDB)
     IN  /\ storage_' = r.storage_
         /\ cache_queue_' = r.cache_queue_
         /\ files' = r.files
         /\ dir_exists' = r.dir_exists
         /\ issued' = issued \cup {tenant_id}
         /\ Inserted(r, tenant_id)
         /\ mlast' = MCall("create_tenant", tenant_id, "ok", r.evicted, FALSE)
  /\ UNCHANGED <<db, last, stored_blob, metric_, max_capacity_, storage_dir_, default_metric_, deleted, mutations>>
  /\ HandleFollows

get_tenant ==
  \E tenant_id \in TenantIds :
    /\ IF tenant_id \in DOMAIN storage_
       THEN /\ mlast' = MCall("get_tenant", tenant_id, "ok", NoTenant, FALSE)
            /\ UNCHANGED <<storage_, cache_queue_, files, dir_exists, inserted, evicted_state>>
       ELSE IF files[tenant_id].exists
       THEN LET c == Construct(Dim, metric_, files[tenant_id])
                r == load_tenant_in_cache(tenant_id, c.db)
            IN  IF c.ok
                THEN /\ storage_' = r.storage_
                     /\ cache_queue_' = r.cache_queue_
                     /\ files' = r.files
                     /\ dir_exists' = r.dir_exists
                     /\ Inserted(r, tenant_id)
                     /\ mlast' = MCall("get_tenant", tenant_id, "ok", r.evicted, TRUE)
                ELSE /\ mlast' = MCall("get_tenant", tenant_id, "error", NoTenant, FALSE)
                     /\ UNCHANGED <<storage_, cache_queue_, files, dir_exists, inserted,
                                    evicted_state>>
       ELSE /\ mlast' = MCall("get_tenant", tenant_id, "not_found", NoTenant, FALSE)
            /\ UNCHANGED <<storage_, cache_queue_, files, dir_exists, inserted, evicted_state>>
    /\ UNCHANGED <<db, last, stored_blob, metric_, max_capacity_, storage_dir_, default_metric_, issued, deleted, mutations>>
    /\ HandleFollows

delete_tenant ==
  \E tenant_id \in TenantIds :
    /\ IF ~contain_tenant(tenant_id)
       THEN /\ mlast' = MCall("delete_tenant", tenant_id, "not_found", NoTenant, FALSE)
            /\ UNCHANGED <<storage_, cache_queue_, files, deleted, inserted, evicted_state>>
       ELSE /\ storage_' = Erase(storage_, tenant_id)
            /\ cache_queue_' = RemoveFromQueue(cache_queue_, tenant_id)
            /\ files' = [files EXCEPT ![tenant_id] = NoFile]
            /\ deleted' = deleted \cup {tenant_id}
            /\ inserted' = SelectSeq(inserted, LAMBDA t : t # tenant_id)
            /\ evicted_state' = [evicted_state EXCEPT ![tenant_id] = NoSnapshot]
            /\ mlast' = MCall("delete_tenant", tenant_id, "ok", NoTenant, FALSE)
    /\ UNCHANGED <<db, last, stored_blob, metric_, max_capacity_, storage_dir_, default_metric_, dir_exists, issued, mutations>>
    /\ HandleFollows

save ==
  /\ dir_exists' = TRUE
  /\ files' = [t \in TenantIds |->
                 IF t \in DOMAIN storage_ THEN save_document(storage_[t]) ELSE files[t]]
  /\ mlast' = MCall("save", NoTenant, "ok", NoTenant, FALSE)
  /\ UNCHANGED <<db, last, stored_blob, metric_, max_capacity_, storage_dir_, default_metric_, storage_, cache_queue_, issued,
                 deleted, inserted, evicted_state, mutations, handle>>

\* get_tenant(tenant_id)->upsert(datas) on a cached tenant
tenant_upsert ==
  \E tenant_id \in DOMAIN storage_, datas \in TenantBatches :
    /\ mutations < MaxMutations
    /\ mutations' = mutations + 1
    /\ UNCHANGED handle
    /\ IF UpsertThrows(storage_[tenant_id], datas)
       THEN /\ storage_' = storage_
            /\ mlast' = MCall("upsert", tenant_id, "error", NoTenant, FALSE)
       ELSE \E r \in UpsertResults(storage_[tenant_id], datas) :
              /\ storage_' = [storage_ EXCEPT ![tenant_id] = r]
              /\ mlast' = MCall("upsert", tenant_id, "ok", NoTenant, FALSE)
    /\ UNCHANGED <<db, last, stored_blob, metric_, max_capacity_, storage_dir_, default_metric_, cache_queue_, files, dir_exists,
                   issued, deleted, inserted, evicted_state>>

\* get_tenant(tenant_id)->store_additional_data(blob) on a cached tenant
tenant_store_additional_data ==
  \E tenant_id \in DOMAIN storage_, blob \in Blobs :
    /\ mutations < MaxMutations
    /\ mutations' = mutations + 1
    /\ UNCHANGED handle
    /\ storage_' = [storage_ EXCEPT ![tenant_id] = store_additional_data(@, blob)]
    /\ mlast' = MCall("store_additional_data", tenant_id, "ok", NoTenant, FALSE)
    /\ UNCHANGED <<db, last, stored_blob, metric_, max_capacity_, storage_dir_, default_metric_, cache_queue_, files, dir_exists,
                   issued, deleted, inserted, evicted_state>>

\* the record of a call made through the handle the caller kept
HandleCall(op, id, blob) ==
  [op |-> op, id |-> id, status |-> "ok", evicted |-> NoTenant,
   loaded |-> FALSE, oldest |-> IF inserted = <<>> THEN NoTenant ELSE Head(inserted),
   expected |-> NoSnapshot, blob |-> blob]

\* h = get_tenant(tenant_id) on a cached tenant, and the caller keeps h
take_handle ==
  \E tenant_id \in DOMAIN storage_ :
    /\ handle.id = NoTenant
    /\ handle' = [handle EXCEPT !.id = tenant_id]
    /\ mlast' = MCall("get_tenant", tenant_id, "ok", NoTenant, FALSE)
    /\ UNCHANGED <<db, last, stored_blob, metric_, max_capacity_, storage_dir_, default_metric_,
                   storage_, cache_queue_, files, dir_exists, issued, deleted, inserted,
                   evicted_state, mutations>>

\* h->store_additional_data(blob) through the handle the caller kept
handle_store_additional_data ==
  \E blob \in Blobs \ {NullJson} :
    /\ handle.id # NoTenant
    /\ mutations < MaxMutations
    /\ mutations' = mutations + 1
    /\ IF handle.detached
       THEN /\ handle' = [handle EXCEPT !.obj = store_additional_data(@, blob),
                                        !.written = blob]
            /\ UNCHANGED storage_
       ELSE /\ handle' = [handle EXCEPT !.written = blob]
            /\ storage_' = [storage_ EXCEPT ![handle.id] = store_additional_data(@, blob)]
    /\ mlast' = HandleCall("store_additional_data", handle.id, blob)
    /\ UNCHANGED <<db, last, stored_blob, metric_, max_capacity_, storage_dir_, default_metric_,
                   cache_queue_, files, dir_exists, issued, deleted, inserted, evicted_state>>

\* the record of a manager call that threw because a write to the disk failed:
\* `named` is the tenant the message of the exception names
FailedCall(op, id, status, named) ==
  [op |-> op, id |-> id, status |-> status, evicted |-> NoTenant,
   loaded |-> FALSE, oldest |-> IF inserted = <<>> THEN NoTenant ELSE Head(inserted),
   expected |-> NoSnapshot, named |-> named]

\* a variant of the failing eviction that drops the victim before the throw
load_tenant_in_cache_save_fails_after_erase(tenant_id, newdb) ==
  LET evict_id == EvictId(cache_queue_)
  IN  [storage_ |-> Erase(storage_, evict_id),
       cache_queue_ |-> Tail(cache_queue_),
       dir_exists |-> TRUE,
       named |-> evict_id]

\* load_tenant_in_cache(tenant_id, newdb) when save() of the victim throws: the
\* directory has been created, the exception is rethrown with the victim's id
\* ahead of storage_.erase, and neither the map nor the queue is written
load_tenant_in_cache_save_fails(tenant_id, newdb) ==
  LET evict_id == EvictId(cache_queue_)
  IN  [storage_ |-> storage_,
       cache_queue_ |-> cache_queue_,
       dir_exists |-> TRUE,
       named |-> evict_id]

\* the cache is full and its victim is cached, so that the insertion saves it
EvictionSaves ==
  /\ CacheFull(storage_, max_capacity_)
  /\ EvictId(cache_queue_) \in DOMAIN storage_

\* create_tenant() when the save of the eviction victim fails
create_tenant_save_fails ==
  /\ issued # TenantIds
  /\ EvictionSaves
  /\ LET tenant_id == generate_uuid
         r == load_tenant_in_cache_save_fails(tenant_id, NewTenantDB)
     IN  /\ storage_' = r.storage_
         /\ cache_queue_' = r.cache_queue_
         /\ dir_exists' = r.dir_exists
         /\ issued' = issued \cup {tenant_id}
         /\ mlast' = FailedCall("create_tenant", tenant_id, "save_failed", r.named)
  /\ UNCHANGED <<db, last, stored_blob, metric_, max_capacity_, storage_dir_, default_metric_,
                 files, deleted, inserted, evicted_state, mutations, handle>>

\* get_tenant(tenant_id) of an evicted tenant when the save of the victim fails
get_tenant_save_fails ==
  \E tenant_id \in TenantIds :
    /\ tenant_id \notin DOMAIN storage_
    /\ files[tenant_id].exists
    /\ Construct(Dim, metric_, files[tenant_id]).ok
    /\ EvictionSaves
    /\ LET r == load_tenant_in_cache_save_fails(tenant_id,
                                                Construct(Dim, metric_, files[tenant_id]).db)
       IN  /\ storage_' = r.storage_
           /\ cache_queue_' = r.cache_queue_
           /\ dir_exists' = r.dir_exists
           /\ mlast' = FailedCall("get_tenant", tenant_id, "save_failed", r.named)
    /\ UNCHANGED <<db, last, stored_blob, metric_, max_capacity_, storage_dir_, default_metric_,
                   files, issued, deleted, inserted, evicted_state, mutations, handle>>

\* delete_tenant(tenant_id) when std::filesystem::remove reports an error: the
\* tenant has left the map and the queue, its file stays
delete_tenant_remove_fails ==
  \E tenant_id \in TenantIds :
    /\ contain_tenant(tenant_id)
    /\ files[tenant_id].exists
    /\ storage_' = Erase(storage_, tenant_id)
    /\ cache_queue_' = RemoveFromQueue(cache_queue_, tenant_id)
    /\ inserted' = SelectSeq(inserted, LAMBDA t : t # tenant_id)
    /\ evicted_state' = [evicted_state EXCEPT ![tenant_id] = NoSnapshot]
    /\ mlast' = FailedCall("delete_tenant", tenant_id, "remove_failed", tenant_id)
    /\ UNCHANGED <<db, last, stored_blob, metric_, max_capacity_, storage_dir_, default_metric_,
                   files, dir_exists, issued, deleted, mutations>>
    /\ HandleFollows

\* save() when db->save() of a cached tenant throws: the tenants the loop
\* visited before it are written
save_fails ==
  \E written \in SUBSET (DOMAIN storage_), failing \in DOMAIN storage_ :
    /\ failing \notin written
    /\ dir_exists' = TRUE
    /\ files' = [t \in TenantIds |->
                   IF t \in written THEN save_document(storage_[t]) ELSE files[t]]
    /\ mlast' = FailedCall("save", NoTenant, "save_failed", failing)
    /\ UNCHANGED <<db, last, stored_blob, metric_, max_capacity_, storage_dir_, default_metric_,
                   storage_, cache_queue_, issued, deleted, inserted, evicted_state, mutations, handle>>

\* the record of a contain_tenant call
ContainCall(id, result) ==
  [op |-> "contain_tenant", id |-> id, status |-> "ok", evicted |-> NoTenant,
   loaded |-> FALSE, oldest |-> IF inserted = <<>> THEN NoTenant ELSE Head(inserted),
   expected |-> NoSnapshot, result |-> result]

\* contain_tenant(tenant_id), a const member function
ContainTenant ==
  \E tenant_id \in TenantIds :
    /\ mlast' = ContainCall(tenant_id, contain_tenant(tenant_id))
    /\ UNCHANGED <<db, last, stored_blob, metric_, max_capacity_, storage_dir_, default_metric_, storage_,
                   cache_queue_, files, dir_exists, issued, deleted, inserted, evicted_state,
                   mutations, handle>>

\* the manager goes away and another MultiTenantNanoVDB is constructed with the
\* same arguments, so over the same storage_dir_: its cache is empty and the
\* tenant files are the ones the first manager left.  The calls that follow
\* are made on the new manager.
fresh_manager ==
  /\ storage_' = [t \in {} |-> 0]
  /\ cache_queue_' = <<>>
  /\ inserted' = <<>>
  /\ mlast' = MCall("fresh_manager", NoTenant, "ok", NoTenant, FALSE)
  /\ UNCHANGED <<db, last, stored_blob, metric_, max_capacity_, storage_dir_, default_metric_, files,
                 dir_exists, issued, deleted, evicted_state, mutations>>
  /\ HandleFollows

\* the record of a call of the manager's constructor
CtorCall(status, embedding_dim, metric, max_capacity, storage_dir) ==
  [op |-> "MultiTenantNanoVDB", id |-> NoTenant, status |-> status, evicted |-> NoTenant,
   loaded |-> FALSE, oldest |-> IF inserted = <<>> THEN NoTenant ELSE Head(inserted),
   expected |-> NoSnapshot, embedding_dim |-> embedding_dim, metric |-> metric,
   max_capacity |-> max_capacity, storage_dir |-> storage_dir]

\* another manager is constructed, with any capacity, dimension and storage
\* root.  When the constructor throws there is no new manager and the calls
\* that follow are made on the old one; otherwise they are made on the new
\* one, whose cache is empty.  Of the valid arguments the model takes the
\* dimension, the metric and the root of the old manager, so that the new
\* manager sees the tenant files of the old one.
construct_manager ==
  \E embedding_dim \in {0 - 1, Dim}, max_capacity \in {0, 1, MaxCapacity},
     storage_dir \in {"", storage_dir_} :
    LET c == MultiTenantNanoVDB(embedding_dim, metric_, max_capacity, storage_dir)
    IN  /\ mlast' = CtorCall(IF c.ok THEN "ok" ELSE "error", embedding_dim, metric_,
                             max_capacity, storage_dir)
        /\ IF c.ok
           THEN /\ max_capacity_' = max_capacity
                /\ storage_dir_' = storage_dir
                /\ storage_' = [t \in {} |-> 0]
                /\ cache_queue_' = <<>>
                /\ inserted' = <<>>
           ELSE UNCHANGED <<max_capacity_, storage_dir_, storage_, cache_queue_, inserted>>
        /\ UNCHANGED <<db, last, stored_blob, metric_, default_metric_, files, dir_exists,
                       issued, deleted, evicted_state, mutations>>
        /\ HandleFollows

(***************************************************************************)
(* Calls on the store                                                      *)
(***************************************************************************)
Init ==
  /\ \E m \in Metrics : db = EmptyDB(Dim, m)
  /\ last = [NoCall EXCEPT !.pre = db]
  /\ stored_blob = EmptyObject
  /\ MTIdle

\* a variant of upsert that writes the entries ahead of the failing one
UpsertFromPartial(B) ==
  /\ \E datas \in B :
       IF UpsertThrows(db, datas)
       THEN LET good == {k \in 0..Len(datas) : ~UpsertThrows(db, SubSeq(datas, 1, k))}
                k == CHOOSE m \in good : \A n \in good : n <= m
            IN  \E r \in UpsertResults(db, SubSeq(datas, 1, k)) :
                  /\ db' = r
                  /\ last' = Call("upsert", "error", datas, <<>>, <<>>, db, <<>>)
       ELSE \E r \in UpsertResults(db, datas) :
              /\ db' = r
              /\ last' = Call("upsert", "ok", datas, <<>>, <<>>, db, <<>>)
  /\ UNCHANGED <<stored_blob, mtvars>>

\* upsert(datas) with datas drawn from B: the throws of the first loop and of
\* the normalize loop happen before data_ or matrix_ is written
UpsertFrom(B) ==
  /\ \E datas \in B :
       IF UpsertThrows(db, datas)
       THEN /\ db' = db
            /\ last' = Call("upsert", "error", datas, <<>>, <<>>, db, <<>>)
       ELSE \E r \in UpsertResults(db, datas) :
              /\ db' = r
              /\ last' = Call("upsert", "ok", datas, <<>>, <<>>, db, <<>>)
  /\ UNCHANGED <<stored_blob, mtvars>>

\* remove(ids) with ids drawn from L
RemoveFrom(L) ==
  \E ids \in L :
    /\ db' = RemoveResult(db, ids)
    /\ last' = Call("remove", IF RemoveThrows(db, ids) THEN "error" ELSE "ok",
                    <<>>, ids, <<>>, db, <<>>)
    /\ UNCHANGED <<stored_blob, mtvars>>

\* get(ids) with ids drawn from L
GetFromLists(L) ==
  \E ids \in L :
    /\ db' = db
    /\ last' = Call("get", "ok", <<>>, ids, <<>>, db, get(db, ids))
    /\ UNCHANGED <<stored_blob, mtvars>>

\* query(q, top_k, threshold, filter) with the arguments drawn from Q, K, T, F
QueryFrom(Q, K, T, F) ==
  \E q \in Q, top_k \in K, threshold \in T, filter \in F :
    /\ db' = db
    /\ IF QueryStatus(db, q) = "ok"
       THEN \E order \in QueryOrders(db, q, filter) :
              last' = QueryCall("ok", q, top_k, threshold, filter, order, db,
                                QueryResult(db, q, top_k, threshold, filter, order))
       ELSE last' = QueryCall(QueryStatus(db, q), q, top_k, threshold, filter, <<>>, db, <<>>)
    /\ UNCHANGED <<stored_blob, mtvars>>

upsert == UpsertFrom(Batches)

remove == RemoveFrom(IdLists)

Get == GetFromLists(IdLists)

query == QueryFrom(InputVectors, {DefaultTopK}, {NoThreshold}, {NoFilter})

Next == upsert \/ remove \/ Get \/ query

Spec == Init /\ [][Next]_vars

(***************************************************************************)
(* The life of one store: single-record calls, queries with options, the   *)
(* additional data, a change of metric, and a save followed by the         *)
(* construction of a fresh store from the file                             *)
(***************************************************************************)
MaxTopK == 2        \* largest top_k passed to query

SingleBatches ==
  {<<[id |-> "a", vector |-> E1]>>, <<[id |-> "b", vector |-> E1]>>,
   <<[id |-> "b", vector |-> E2]>>, <<[id |-> "b", vector |-> Zero]>>}
SingleIds == {<<"a">>, <<"b">>}
Thresholds == {NoThreshold, Threshold([n |-> 1, d2 |-> 4]), Threshold(Sc(0 - 3))}
Filters == {NoFilter, "not_a"}

StoreInit ==
  /\ \E m \in Metrics : db = EmptyDB(Dim, m)
  /\ last = [NoCall EXCEPT !.pre = db]
  /\ stored_blob = EmptyObject
  /\ MTIdle

upsert_one == UpsertFrom(SingleBatches)

remove_one == RemoveFrom(SingleIds)

get_one == GetFromLists(SingleIds)

query_with == QueryFrom(InputVectors, 1..MaxTopK, Thresholds, Filters)

StoreAdditionalData ==
  \E blob \in Blobs :
    /\ db' = store_additional_data(db, blob)
    /\ stored_blob' = blob
    /\ last' = BlobCall("store_additional_data", "ok", blob, db)
    /\ UNCHANGED mtvars

get_additional_data ==
  /\ db' = db
  /\ last' = BlobCall("get_additional_data", "ok", db.additional_data_, db)
  /\ UNCHANGED <<stored_blob, mtvars>>

\* initialize_metric(type): the fields are assigned before pre_process can throw
InitializeMetric ==
  \E strategy \in Metrics :
    /\ db' = initialize_metric(db, strategy).db
    /\ last' = MetricCall(IF initialize_metric(db, strategy).ok THEN "ok" ELSE "error",
                          strategy, db)
    /\ UNCHANGED <<stored_blob, mtvars>>

\* save(), then a fresh store constructed with the same dimension, metric,
\* metric strategy and file; db is the fresh store from then on.  When the
\* construction throws there is no fresh store and db stays the old one.
save_and_load ==
  LET doc == save_document(db)
      c == ConstructWith(db.embedding_dim_, db.metric_, db.metric_strategy_, doc)
  IN  /\ db' = IF c.ok THEN c.db ELSE db
      /\ stored_blob' = IF ~c.ok THEN stored_blob
                        ELSE IF doc.has_additional_data THEN doc.additional_data
                        ELSE EmptyObject
      /\ last' = Call("save_and_load", IF c.ok THEN "ok" ELSE "error",
                      <<>>, <<>>, <<>>, db, <<>>)
      /\ UNCHANGED mtvars

\* the record of a save followed by a construction on the same file
PersistCall(status, storage, f, via, pre) ==
  [op |-> "save_and_load_with", status |-> status, datas |-> <<>>, ids |-> <<>>,
   q |-> <<>>, pre |-> pre, result |-> <<>>,
   storage |-> storage, wrote |-> f.via, file |-> f, read |-> via]

\* save() on a store that has the storage strategy `storage`, then a fresh
\* store constructed with the same dimension, metric, strategies and file; db
\* is the fresh store from then on, and stays the old one when save or the
\* construction throws
save_and_load_with ==
  \E storage \in StorageStrategies :
    LET f == db_save(db, storage)
        r == ConstructFromSaved(db.embedding_dim_, db.metric_, db.metric_strategy_,
                                storage, f)
    IN  /\ db' = IF f.ok /\ r.c.ok THEN r.c.db ELSE db
        /\ last' = PersistCall(IF ~f.ok THEN "save_error"
                               ELSE IF r.c.ok THEN "ok" ELSE "error",
                               storage, f, r.via, db)
        /\ UNCHANGED <<stored_blob, mtvars>>

PersistNext ==
  \/ upsert_one
  \/ remove_one
  \/ StoreAdditionalData
  \/ InitializeMetric
  \/ save_and_load_with

PersistSpec == StoreInit /\ [][PersistNext]_vars

StoreNext ==
  \/ upsert_one
  \/ remove_one
  \/ get_one
  \/ query_with
  \/ StoreAdditionalData
  \/ get_additional_data
  \/ InitializeMetric
  \/ save_and_load

StoreSpec == StoreInit /\ [][StoreNext]_vars

(***************************************************************************)
(* Construction of a store on a path that holds any document               *)
(***************************************************************************)
MaxData == 2        \* longest data list of a document

\* a vector of a store of dimension Dim + 1
Wide == Raw([i \in 1..(Dim + 1) |-> 1])

\* the matrix fields of the documents: what stores of dimension Dim saved,
\* one float short of a row, and Dim rows saved by a store of dimension Dim + 1
Buffers ==
  {array_to_buffer_string(m) : m \in {<<>>, <<E1>>, <<Zero>>, <<E1, E2>>, <<Short>>,
                                      [i \in 1..Dim |-> Wide]}}

DataEntries == {[has_id |-> TRUE, id |-> "a"], [has_id |-> TRUE, id |-> "b"],
                [has_id |-> FALSE, id |-> ""]}
DataLists == UNION {[1..k -> DataEntries] : k \in 0..MaxData}

\* the documents a storage file can hold; a field the document lacks has its
\* value in NoFile
Documents ==
  {NoFile} \cup
  {[exists |-> TRUE,
    has_embedding_dim |-> e.has, embedding_dim |-> e.val,
    has_matrix |-> m.has, matrix |-> m.val,
    has_data |-> d.has, data |-> d.val,
    has_additional_data |-> a.has, additional_data |-> a.val] :
     e \in {[has |-> FALSE, val |-> 0]} \cup [has : {TRUE}, val : {Dim, Dim + 1}],
     m \in {[has |-> FALSE, val |-> <<>>]} \cup [has : {TRUE}, val : Buffers],
     d \in {[has |-> FALSE, val |-> <<>>]} \cup [has : {TRUE}, val : DataLists],
     a \in {[has |-> FALSE, val |-> NullJson], [has |-> TRUE, val |-> "{\"a\":1}"]}}

\* the record of a constructor call
LoadCall(status, err, dim, metric, storage, doc, pre) ==
  [op |-> "construct", status |-> status, datas |-> <<>>, ids |-> <<>>, q |-> <<>>,
   pre |-> pre, result |-> <<>>, err |-> err, dim |-> dim, metric |-> metric,
   storage |-> storage, doc |-> doc]

\* the one construction of a run: a store is constructed with a dimension of
\* Dims on a path that holds doc, and db is that store from then on.  When the
\* constructor fails no store comes out of it and db stays as it was.
ConstructDims(Dims) ==
  \E dim \in Dims, doc \in Documents, metric \in Metrics, storage \in StorageStrategies :
    \E c \in ConstructWithStorage(dim, metric, "none", storage, doc) :
      /\ last.op = "init"
      /\ db' = IF c.ok THEN c.db ELSE db
      /\ stored_blob' = IF c.ok THEN c.db.additional_data_ ELSE stored_blob
      /\ last' = LoadCall(IF c.ok THEN "ok" ELSE "error", c.err, dim, metric, storage,
                          doc, db)
      /\ UNCHANGED mtvars

construct == ConstructDims({Dim})

\* a construction with any dimension, positive or not
construct_any_dimension == ConstructDims({0 - 1, 0, Dim})

LoadNext == construct

LoadSpec == StoreInit /\ [][LoadNext]_vars

\* a variant of clear that drops the records and keeps the rows
clear_records_only(d) == [d EXCEPT !.data_ = <<>>]

\* clear(), as the documentation states it: all records are dropped and the
\* matrix is reset to zero rows; nothing else changes
clear(d) == [d EXCEPT !.data_ = <<>>, !.matrix_ = <<>>]

Clear ==
  /\ db' = clear(db)
  /\ last' = Call("clear", "ok", <<>>, <<>>, <<>>, db, <<>>)
  /\ UNCHANGED <<stored_blob, mtvars>>

ClearNext ==
  \/ upsert_one
  \/ get_one
  \/ StoreAdditionalData
  \/ InitializeMetric
  \/ Clear

ClearSpec == StoreInit /\ [][ClearNext]_vars

DimNext == construct_any_dimension

DimSpec == StoreInit /\ [][DimNext]_vars

MTNext ==
  \/ create_tenant
  \/ get_tenant
  \/ delete_tenant
  \/ save
  \/ tenant_upsert
  \/ tenant_store_additional_data

MTSpec == MTInit /\ [][MTNext]_vars

\* managers that follow one another over one storage root
RootNext ==
  \/ create_tenant
  \/ get_tenant
  \/ delete_tenant
  \/ save
  \/ ContainTenant
  \/ fresh_manager

RootSpec == MTInit /\ [][RootNext]_vars

\* managers constructed with any arguments
CtorNext ==
  \/ create_tenant
  \/ get_tenant
  \/ delete_tenant
  \/ save
  \/ construct_manager

CtorSpec == MTInit /\ [][CtorNext]_vars


\* The manager and a caller that keeps a handle across evictions
HandleNext ==
  \/ create_tenant
  \/ get_tenant
  \/ take_handle
  \/ handle_store_additional_data

HandleSpec == MTInit /\ [][HandleNext]_vars

\* The manager on a disk whose writes can fail
FailInit ==
  /\ db = EmptyDB(Dim, "cosine")
  /\ last = NoCall
  /\ stored_blob = EmptyObject
  /\ metric_ = "cosine"
  /\ max_capacity_ \in {1, MaxCapacity}
  /\ storage_dir_ = StorageDir
  /\ default_metric_ = "none"
  /\ storage_ = [t \in {} |-> 0]
  /\ cache_queue_ = <<>>
  /\ files = [t \in TenantIds |-> NoFile]
  /\ dir_exists = FALSE
  /\ issued = {}
  /\ deleted = {}
  /\ inserted = <<>>
  /\ evicted_state = [t \in TenantIds |-> NoSnapshot]
  /\ mutations = 0
  /\ handle = NoHandle
  /\ mlast = NoMCall

FailNext ==
  \/ create_tenant
  \/ get_tenant
  \/ delete_tenant
  \/ save
  \/ create_tenant_save_fails
  \/ get_tenant_save_fails
  \/ delete_tenant_remove_fails
  \/ save_fails

FailSpec == FailInit /\ [][FailNext]_vars

(***************************************************************************)
(* Properties of the store                                                 *)
(***************************************************************************)
\* the id upsert gives a batch entry
EntryId(e) == IF e.id = "" THEN hash_vector(e.vector) ELSE e.id

\* the vector a store keeps for an accepted input vector
Kept(d, v) == IF d.metric_ = "cosine" THEN normalize(v).v ELSE v

IdsOf(data) == {data[i].id : i \in 1..Len(data)}
IndexesOf(data, id) == {i \in 1..Len(data) : data[i].id = id}
BatchIds(datas) == {EntryId(datas[i]) : i \in 1..Len(datas)}
IsLastOfItsId(datas, i) == \A j \in (i + 1)..Len(datas) : EntryId(datas[j]) # EntryId(datas[i])
UpsertDone == last.op = "upsert" /\ last.status = "ok"

\* C1: after every upsert and remove call, failed ones included, the matrix
\* has as many rows as there are records, and size() is that number.
C1_RowRecordAlignment ==
  /\ Len(db.matrix_) = Len(db.data_)
  /\ size(db) = Len(db.matrix_)

C1_Witness ==
  /\ last.op = "upsert" /\ last.status = "error"
  /\ size(db) = 3
  /\ size(db) = Len(db.matrix_)

\* C6: no two records share an id; after an upsert every id of the batch has
\* exactly one record, holding the vector of the last batch entry with that id.
C6_UpsertIdempotentOnId ==
  /\ \A i, j \in 1..Len(db.data_) : db.data_[i].id = db.data_[j].id => i = j
  /\ UpsertDone =>
       \A i \in 1..Len(last.datas) :
         IsLastOfItsId(last.datas, i) =>
           /\ Cardinality(IndexesOf(db.data_, EntryId(last.datas[i]))) = 1
           /\ \A k \in IndexesOf(db.data_, EntryId(last.datas[i])) :
                /\ db.data_[k].vector = Kept(db, last.datas[i].vector)
                /\ db.matrix_[k] = Kept(db, last.datas[i].vector)

C6_Witness ==
  /\ UpsertDone
  /\ Len(last.datas) = 2
  /\ last.datas[1].id = "a" /\ last.datas[2].id = "a"
  /\ last.datas[1].vector # last.datas[2].vector
  /\ "a" \in IdsOf(last.pre.data_)
  /\ \E k \in 1..Len(db.data_) :
       db.data_[k].id = "a" /\ db.data_[k].vector = Kept(db, last.datas[2].vector)
       /\ last.pre.data_[k].vector # db.data_[k].vector

\* C7: an upsert with a vector of the wrong length anywhere in the batch and a
\* query with a vector of the wrong length fail and leave the store as it was.
C7_DimensionInvariant ==
  /\ (last.op = "upsert" /\ \E i \in 1..Len(last.datas) : Len(last.datas[i].vector) # Dim)
       => (last.status = "error" /\ db = last.pre)
  /\ (last.op = "query" /\ Len(last.q) # Dim)
       => (last.status # "ok" /\ db = last.pre)
  /\ \A i \in 1..Len(db.data_) :
       Len(db.data_[i].vector) = Dim /\ Len(db.matrix_[i]) = Dim

C7_Witness ==
  /\ last.op = "upsert" /\ last.status = "error"
  /\ Len(last.datas) = 2
  /\ Len(last.datas[1].vector) = Dim /\ ~ZeroNorm(last.datas[1].vector)
  /\ Len(last.datas[2].vector) # Dim
  /\ size(db) >= 1 /\ db = last.pre

\* C8: an upsert overwrites the records of batch ids at their index, leaves
\* every other record as it was at its index, puts the new ids after all the
\* old records, and grows the store by the number of new ids.
C8_UpsertFrameAndPosition ==
  UpsertDone =>
    /\ \A i \in 1..Len(last.pre.data_) :
         /\ i <= Len(db.data_)
         /\ db.data_[i].id = last.pre.data_[i].id
         /\ last.pre.data_[i].id \notin BatchIds(last.datas) =>
              (db.data_[i] = last.pre.data_[i] /\ db.matrix_[i] = last.pre.matrix_[i])
         /\ last.pre.data_[i].id \in BatchIds(last.datas) =>
              \E j \in 1..Len(last.datas) :
                /\ EntryId(last.datas[j]) = last.pre.data_[i].id
                /\ IsLastOfItsId(last.datas, j)
                /\ db.data_[i].vector = Kept(db, last.datas[j].vector)
    /\ \A id \in BatchIds(last.datas) \ IdsOf(last.pre.data_) :
         \E k \in (Len(last.pre.data_) + 1)..Len(db.data_) : db.data_[k].id = id
    /\ size(db) = size(last.pre)
                  + Cardinality(BatchIds(last.datas) \ IdsOf(last.pre.data_))

C8_Witness ==
  /\ UpsertDone
  /\ size(last.pre) = 2 /\ size(db) = 3
  /\ last.pre.data_[1].id \in BatchIds(last.datas)
  /\ last.pre.data_[1].vector # db.data_[1].vector
  /\ last.pre.data_[2].id \notin BatchIds(last.datas)
  /\ db.data_[3].id \in BatchIds(last.datas)

\* C9: the id of an unlabeled record depends on its vector only, so unlabeled
\* entries with equal vectors, in one batch or in several upserts, are one record.
C9_ContentDerivedId ==
  UpsertDone =>
    \A i \in 1..Len(last.datas) :
      last.datas[i].id = "" =>
        /\ IdsOf(db.data_) = IdsOf(last.pre.data_) \cup BatchIds(last.datas)
        /\ IndexesOf(last.pre.data_, hash_vector(last.datas[i].vector))
             \subseteq IndexesOf(db.data_, hash_vector(last.datas[i].vector))
        /\ Cardinality(IndexesOf(db.data_, hash_vector(last.datas[i].vector))) = 1

C9_Witness ==
  /\ UpsertDone
  /\ Len(last.datas) = 2
  /\ last.datas[1] = [id |-> "", vector |-> E1]
  /\ last.datas[2] = last.datas[1]
  /\ hash_vector(E1) \in IdsOf(last.pre.data_)
  /\ size(db) = size(last.pre)
  /\ size(db) = 2

\* C10: get returns the current records whose id was requested, each once, in
\* store order; ids that are not stored are left out; the store is unchanged.
C10_Get ==
  last.op = "get" =>
    /\ last.status = "ok"
    /\ db = last.pre
    /\ last.result =
         SelectSeq(db.data_, LAMBDA r : r.id \in {last.ids[j] : j \in 1..Len(last.ids)})

C10_Witness ==
  /\ last.op = "get"
  /\ Len(last.ids) = 2
  /\ Len(last.result) = 2
  /\ last.result[1].id = last.ids[2]
  /\ last.result[2].id = last.ids[1]
  /\ size(db) = 3

C10_WitnessAbsent ==
  /\ last.op = "get"
  /\ last.ids = <<"zz", "a">>
  /\ Len(last.result) = 1

\* C11: remove(ids) deletes the records whose id is listed and nothing else:
\* get(ids) is empty afterwards, size() drops by the number of listed ids that
\* were stored, the other records keep id, vector and relative order, and a
\* remove of absent ids only leaves the store as it was.
C11_Remove ==
  (last.op = "remove") =>
    LET idset == {last.ids[j] : j \in 1..Len(last.ids)} IN
    /\ last.status = "ok"
    /\ get(db, last.ids) = <<>>
    /\ size(db) = size(last.pre) - Cardinality(idset \cap IdsOf(last.pre.data_))
    /\ db.data_ = SelectSeq(last.pre.data_, LAMBDA r : r.id \notin idset)
    /\ \A i \in 1..Len(db.data_) :
         \E k \in IndexesOf(last.pre.data_, db.data_[i].id) :
           db.matrix_[i] = last.pre.matrix_[k]
    /\ (idset \cap IdsOf(last.pre.data_) = {}) => db = last.pre

C11_Witness ==
  /\ last.op = "remove" /\ last.status = "ok"
  /\ size(last.pre) = 3 /\ size(db) = 2
  /\ Len(last.ids) = 2 /\ "zz" \in {last.ids[j] : j \in 1..Len(last.ids)}
  /\ last.pre.data_[1].id \in {last.ids[j] : j \in 1..Len(last.ids)}
  /\ db.data_[1] = last.pre.data_[2] /\ db.data_[2] = last.pre.data_[3]

C11_WitnessAbsent ==
  /\ last.op = "remove" /\ last.status = "ok"
  /\ last.ids = <<"zz">>
  /\ size(db) = 2 /\ db = last.pre

(***************************************************************************)
(* Properties of queries, the additional data and persistence (StoreSpec)  *)
(***************************************************************************)
QueryDone == last.op = "query" /\ last.status = "ok"
Min(a, b) == IF a < b THEN a ELSE b
IsPrefix(s, t) == Len(s) <= Len(t) /\ \A i \in 1..Len(s) : s[i] = t[i]
Candidates(d, filter) == {i \in 1..Len(d.data_) : Accepts(filter, d.data_[i])}

\* C12: a query result has at most top_k entries, each a current record that
\* the filter accepts, no record twice, scores in non-increasing order; the
\* store is unchanged by the call.
C12_QueryShape ==
  /\ last.op = "query" => db = last.pre
  /\ QueryDone =>
       /\ Len(last.result) <= last.top_k
       /\ \A i \in 1..Len(last.result) :
            /\ \E k \in 1..Len(db.data_) : db.data_[k] = last.result[i].data
            /\ Accepts(last.filter, last.result[i].data)
       /\ \A i, j \in 1..Len(last.result) :
            /\ last.result[i].data.id = last.result[j].data.id => i = j
            /\ i < j => ~ScLess(last.result[i].score, last.result[j].score)

C12_Witness ==
  /\ QueryDone
  /\ last.top_k = 2 /\ size(db) = 2 /\ Len(last.result) = 2
  /\ ScLess(last.result[2].score, last.result[1].score)
  /\ last.result[1].data = db.data_[2]
  /\ last.result[2].data = db.data_[1]

C12_WitnessFilter ==
  /\ QueryDone
  /\ last.filter = "not_a" /\ last.top_k = 2 /\ size(db) = 2
  /\ Len(last.result) = 1 /\ last.result[1].data.id = "b"
  /\ \E k \in 1..2 : db.data_[k].id = "a" /\ db.data_[k].vector = last.q

\* C13: with a threshold T no returned score is below T, and the result is a
\* prefix of what the same query returns without a threshold.
C13_ThresholdTruncation ==
  (QueryDone /\ last.threshold.given) =>
    /\ \A i \in 1..Len(last.result) :
         ~ScLess(last.result[i].score, last.threshold.value)
    /\ IsPrefix(last.result,
                QueryResult(last.pre, last.q, last.top_k, NoThreshold, last.filter,
                            last.order))

C13_Witness ==
  /\ QueryDone /\ last.threshold.given
  /\ Len(last.result) = 1
  /\ Len(QueryResult(last.pre, last.q, last.top_k, NoThreshold, last.filter,
                     last.order)) = 2

\* C14: without a threshold a query returns exactly min(top_k, candidates)
\* results, in cosine and in squared-Euclidean mode, whether the mode was
\* selected by metric name or by metric strategy; it returns fewer than top_k
\* only if the threshold truncates or fewer candidates exist.
C14_QueryCount ==
  QueryDone =>
    /\ ~last.threshold.given =>
         Len(last.result) = Min(last.top_k, Cardinality(Candidates(db, last.filter)))
    /\ Len(last.result) < last.top_k =>
         \/ last.threshold.given
         \/ Cardinality(Candidates(db, last.filter)) < last.top_k

\* C15: in a cosine-mode store a query with the vector a record was stored
\* with returns a record holding that vector first, with score 1.
C15_ExactMatchFirst ==
  (QueryDone /\ db.metric_ = "cosine" /\ ~last.threshold.given) =>
    \A k \in Candidates(db, last.filter) :
      (db.data_[k].vector = last.q \/ db.data_[k].vector = normalize(last.q).v) =>
        /\ Len(last.result) >= 1
        /\ ScEq(last.result[1].score, Sc(1))
        /\ last.result[1].data.vector = db.data_[k].vector

\* C16: with the squared-Euclidean strategy each score is the negated
\* distance between the query and the returned record's vector, the first
\* result is a candidate of minimum distance, and the threshold is compared
\* with the negated distance.
C16_ScoreSign ==
  (QueryDone /\ db.metric_strategy_ = "l2") =>
    /\ \A i \in 1..Len(last.result) :
         /\ last.result[i].score = Neg(L2Distance(last.q, last.result[i].data.vector))
         /\ last.threshold.given =>
              ~ScLess(Neg(L2Distance(last.q, last.result[i].data.vector)),
                      last.threshold.value)
    /\ Len(last.result) >= 1 =>
         \A k \in Candidates(db, last.filter) :
           ~ScLess(L2Distance(last.q, db.data_[k].vector),
                   L2Distance(last.q, last.result[1].data.vector))
    /\ (Len(last.result) = 0 /\ Candidates(db, last.filter) # {}) =>
         /\ last.threshold.given
         /\ \A k \in Candidates(db, last.filter) :
              ScLess(Neg(L2Distance(last.q, db.data_[k].vector)), last.threshold.value)

C16_Witness ==
  /\ QueryDone /\ db.metric_strategy_ = "l2"
  /\ last.threshold = Threshold(Sc(0 - 3))
  /\ size(db) = 2 /\ last.top_k = 2 /\ last.filter = NoFilter
  /\ Len(last.result) = 1
  /\ last.result[1].data = db.data_[2]
  /\ last.result[1].score = Sc(0 - 1)
  /\ L2Distance(last.q, db.data_[1].vector) = Sc(5)

\* C17: save() followed by the construction of a fresh store with the same
\* dimension, distance mode and file gives the same record ids in the same
\* order, each with an equal vector, and the same size().
C17_RecordRoundTrip ==
  last.op = "save_and_load" =>
    /\ last.status = "ok"
    /\ size(db) = size(last.pre)
    /\ db.data_ = last.pre.data_

\* C18: save() followed by the construction of a fresh store from the same
\* file makes get_additional_data() return the blob the saved store held.
C18_BlobRoundTrip ==
  (last.op = "save_and_load" /\ last.status = "ok") =>
    db.additional_data_ = last.pre.additional_data_

\* C19: store_additional_data replaces the blob and leaves records and matrix
\* alone; upsert, remove, get and query leave the blob alone;
\* get_additional_data returns the blob last stored, the empty object if none
\* was stored or loaded.
C19_AdditionalDataIndependent ==
  /\ last.op = "store_additional_data" =>
       /\ db.additional_data_ = last.blob
       /\ db.data_ = last.pre.data_ /\ db.matrix_ = last.pre.matrix_
  /\ last.op \in {"upsert", "remove", "get", "query"} =>
       db.additional_data_ = last.pre.additional_data_
  /\ last.op = "get_additional_data" => last.blob = stored_blob

C19_Witness ==
  /\ last.op = "get_additional_data"
  /\ last.blob = NullJson
  /\ size(db) = 2

C19_WitnessStore ==
  /\ last.op = "store_additional_data"
  /\ last.blob = NullJson /\ last.pre.additional_data_ = "{\"a\":1}"
  /\ size(db) = 2

\* C20: after construction and after every upsert, remove and
\* initialize_metric call, matrix row i holds the vector of record i.
C20_RowContentAlignment ==
  \A i \in 1..Len(db.data_) :
    i <= Len(db.matrix_) /\ db.matrix_[i] = db.data_[i].vector

\* a vector of norm one
UnitNorm(v) == DotN(v, v, Len(v)) = D2Of(v)

\* C21: whenever the store's distance mode is cosine, every record vector and
\* every matrix row has unit norm (the raw vector is not retained): after a
\* construction from persisted state, after every upsert, and after a switch
\* of the mode to cosine on a store that holds records.
C21_NormalizationInvariant ==
  db.metric_ = "cosine" =>
    /\ \A i \in 1..Len(db.data_) : UnitNorm(db.data_[i].vector)
    /\ \A i \in 1..Len(db.matrix_) : UnitNorm(db.matrix_[i])

\* C33: the cosine distance with a zero-norm argument is 1 (kept here as the
\* similarity 0 it is one minus of); a query on a cosine-mode store with a
\* zero-norm vector of the right length completes and scores every result
\* from distance 1; a query fails only for a vector of the wrong length.
C33_ZeroNormQuery ==
  /\ \A v \in GoodVectors : CosineDistance(Zero, v).one_minus = Sc(0)
  /\ (/\ last.op = "query" /\ last.pre.metric_ = "cosine"
      /\ Len(last.q) = last.pre.embedding_dim_ /\ ZeroNorm(last.q)) =>
       /\ last.status = "ok"
       /\ \A i \in 1..Len(last.result) : ScEq(last.result[i].score, Sc(0))
  /\ (last.op = "query" /\ last.status # "ok") =>
       Len(last.q) # last.pre.embedding_dim_

\* C39: upsert is all-or-nothing: every upsert that fails, in particular a
\* cosine-mode batch holding a zero-norm vector after valid entries, leaves the
\* records, the matrix and the size exactly as they were before the call.
C39_UpsertAllOrNothing ==
  (last.op = "upsert" /\ last.status = "error") =>
    /\ db.data_ = last.pre.data_
    /\ db.matrix_ = last.pre.matrix_
    /\ size(db) = size(last.pre)

\* a cosine-mode batch with a zero-norm vector after a valid new entry
C39_Witness ==
  /\ last.op = "upsert" /\ last.status = "error"
  /\ last.pre.metric_ = "cosine"
  /\ Len(last.datas) = 2
  /\ last.datas[1] = [id |-> "a", vector |-> E1]
  /\ ZeroNorm(last.datas[2].vector) /\ Len(last.datas[2].vector) = Dim
  /\ \A i \in 1..Len(last.pre.data_) : last.pre.data_[i].id # "a"

\* a batch with a vector of the wrong length after a valid entry
C39_WitnessLength ==
  /\ last.op = "upsert" /\ last.status = "error"
  /\ Len(last.datas) = 2
  /\ Len(last.datas[1].vector) = Dim /\ ~ZeroNorm(last.datas[1].vector)
  /\ Len(last.datas[2].vector) # Dim
  /\ size(last.pre) = 1

\* C34: clear() drops all records and resets the matrix to zero rows, and
\* leaves the dimension and the rest of the configuration alone: after it
\* size() is 0 and get of any id is empty, and an upsert of a vector of
\* length N that follows succeeds.
C34_Clear ==
  [][/\ last'.op = "clear" =>
          /\ size(db') = 0 /\ db'.matrix_ = <<>>
          /\ \A ids \in SingleIds : get(db', ids) = <<>>
          /\ db'.embedding_dim_ = db.embedding_dim_
          /\ db'.metric_ = db.metric_
          /\ db'.metric_strategy_ = db.metric_strategy_
          /\ db'.additional_data_ = db.additional_data_
     /\ (/\ last.op = "clear" /\ last'.op = "upsert"
         /\ \A i \in 1..Len(last'.datas) :
              /\ Len(last'.datas[i].vector) = db.embedding_dim_
              /\ db.metric_ = "cosine" => ~ZeroNorm(last'.datas[i].vector)) =>
          /\ last'.status = "ok"
          /\ size(db') = Len(last'.datas)
          /\ Len(db'.matrix_) = size(db')]_vars

C34_Witness ==
  /\ last.op = "clear"
  /\ size(last.pre) = 2 /\ size(db) = 0
  /\ last.pre.additional_data_ = "{\"a\":1}"

\* an upsert into a store that was emptied
C34_WitnessUpsert ==
  /\ last.op = "upsert" /\ last.status = "ok"
  /\ size(last.pre) = 0 /\ size(db) = 1
  /\ last.pre.additional_data_ = "{\"a\":1}"
  /\ last.pre.metric_strategy_ = "l2"

\* C40: save() of a store with a record-oriented backend writes through
\* write_records and never through the byte-oriented write; with a
\* byte-oriented backend or none it writes the single document with
\* embedding_dim, matrix and data; and the construction reads the file back
\* through the shape save wrote, which gives the records back.
C40_PersistenceDispatch ==
  last.op = "save_and_load_with" =>
    /\ IStorageRecords(last.storage) =>
         /\ last.wrote = "write_records"
         /\ last.file.shape = "records"
         /\ last.file.rows.records = last.pre.data_
         /\ last.status # "save_error" => last.read = "read_records"
    /\ ~IStorageRecords(last.storage) =>
         /\ last.wrote = (IF last.storage = "none" THEN "ofstream" ELSE "write")
         /\ last.file.shape = "document"
         /\ last.file.doc.has_embedding_dim /\ last.file.doc.has_matrix
         /\ last.file.doc.has_data
         /\ last.file.doc.embedding_dim = last.pre.embedding_dim_
         /\ last.file.doc.matrix = array_to_buffer_string(last.pre.matrix_)
         /\ last.read = (IF last.storage = "none" THEN "load_storage" ELSE "read")
    /\ last.status = "ok" =>
         [i \in 1..Len(db.data_) |-> db.data_[i].id]
           = [i \in 1..Len(last.pre.data_) |-> last.pre.data_[i].id]

\* two records saved to and read back from the record-oriented backend
C40_Witness ==
  /\ last.op = "save_and_load_with" /\ last.status = "ok"
  /\ last.storage = "sqlite" /\ last.read = "read_records"
  /\ size(last.pre) = 2 /\ size(db) = 2

\* two records saved and read back as bytes
C40_WitnessBytes ==
  /\ last.op = "save_and_load_with" /\ last.status = "ok"
  /\ last.storage = "mmap" /\ last.read = "read"
  /\ size(last.pre) = 2 /\ size(db) = 2

(***************************************************************************)
(* Properties of the loading constructor, checked under LoadSpec           *)
(***************************************************************************)
Constructed == last.op = "construct"

\* C22: constructing a store on a path that holds no persisted state succeeds
\* and gives an empty store, zero records and a zero-row matrix of the
\* configured dimension, with the default file loading and with every
\* storage strategy.
C22_MissingStateIsEmptyStore ==
  (Constructed /\ ~last.doc.exists) =>
    /\ last.status = "ok"
    /\ size(db) = 0 /\ db.matrix_ = <<>>
    /\ db.embedding_dim_ = Dim /\ db.metric_ = last.metric

C22_Witness ==
  /\ Constructed /\ ~last.doc.exists /\ last.storage = "none"
  /\ last.metric # last.pre.metric_ /\ size(db) = 0

C22_WitnessStrategy ==
  /\ Constructed /\ ~last.doc.exists /\ last.storage = "sqlite"
  /\ last.metric # last.pre.metric_ /\ size(db) = 0

\* C23: constructing a store of dimension Dim from a document whose recorded
\* dimension is another one fails, and no store comes out of it.
C23_DimensionMismatchFatal ==
  (Constructed /\ last.doc.exists /\ last.doc.has_embedding_dim
     /\ last.doc.embedding_dim # Dim) =>
    /\ last.status = "error"
    /\ db = last.pre

C23_Witness ==
  /\ Constructed /\ last.err = "embedding_dim"
  /\ last.doc.embedding_dim = Dim + 1
  /\ Len(last.doc.data) = Dim
  /\ 4 * Len(last.doc.matrix) = Dim * (Dim + 1) * 4

\* the decoded byte length of the matrix field is a multiple of Dim * 4
WholeRows(doc) == (4 * Len(doc.matrix)) % (Dim * 4) = 0

\* C24: constructing a store from an existing document fails whenever the
\* document lacks the embedding_dim field, the matrix field or the data field,
\* has a data entry without id, has a matrix whose decoded byte length is not
\* a multiple of Dim * 4, or has a data list whose length is not the decoded
\* row count; no store comes out of it.
C24_LoadValidation ==
  (/\ Constructed /\ last.doc.exists
   /\ \/ ~last.doc.has_embedding_dim
      \/ ~last.doc.has_matrix
      \/ ~last.doc.has_data
      \/ \E i \in 1..Len(last.doc.data) : ~last.doc.data[i].has_id
      \/ ~WholeRows(last.doc)
      \/ 4 * Len(last.doc.matrix) # Len(last.doc.data) * Dim * 4) =>
    /\ last.status = "error"
    /\ db = last.pre

\* C31: constructing a store with a dimension that is not positive fails,
\* whether or not its location holds persisted state.
C31_NonPositiveDimensionFails ==
  (Constructed /\ last.dim <= 0) => last.status = "error"

(***************************************************************************)
(* Properties of the manager                                               *)
(***************************************************************************)
Cached == DOMAIN storage_

\* C2: after every manager call the number of tenants held in memory is at
\* most the capacity the manager was constructed with.
C2_CapacityBound == Cardinality(Cached) <= max_capacity_

C2_Witness ==
  /\ mlast.op = "get_tenant" /\ mlast.loaded
  /\ mlast.evicted # NoTenant
  /\ max_capacity_ = 2
  /\ Cardinality(Cached) = max_capacity_

\* C3: an insertion into a full cache evicts the tenant that entered the cache
\* first among the cached ones; a get_tenant on a cached tenant leaves the
\* next tenant to be evicted as it was.
C3_FifoEviction ==
  /\ mlast.evicted # NoTenant => mlast.evicted = mlast.oldest
  /\ Cached # {} => EvictId(cache_queue_) = Head(inserted)
  /\ (mlast.op = "get_tenant" /\ mlast.status = "ok" /\ ~mlast.loaded)
       => EvictId(cache_queue_) = mlast.oldest

C3_Witness ==
  /\ mlast.op = "get_tenant" /\ mlast.loaded
  /\ max_capacity_ = 2
  /\ mlast.evicted # NoTenant
  /\ mlast.evicted = mlast.oldest
  /\ mlast.evicted > Head(inserted)

C3_WitnessHit ==
  /\ mlast.op = "get_tenant" /\ mlast.status = "ok" /\ ~mlast.loaded
  /\ Len(cache_queue_) = 2
  /\ mlast.id = cache_queue_[1]
  /\ files[cache_queue_[2]].exists = FALSE

\* C4: creating capacity + 1 tenants evicts and persists the first tenant, and
\* get_tenant on an evicted tenant reloads a store with the records and the
\* additional data the tenant held when it was evicted.
C4_EvictionRoundTrip ==
  /\ (mlast.op = "create_tenant" /\ mlast.id = max_capacity_ + 1 /\ deleted = {})
       => (mlast.evicted = 1 /\ 1 \notin Cached /\ files[1].exists)
  /\ (mlast.op = "get_tenant" /\ mlast.expected.valid)
       => /\ mlast.status = "ok"
          /\ mlast.id \in Cached
          /\ storage_[mlast.id].data_ = mlast.expected.data_
          /\ storage_[mlast.id].additional_data_ = mlast.expected.additional_data_

\* C5: every id create_tenant returned that was not deleted since is cached
\* or has persisted state, so contain_tenant is true and get_tenant succeeds.
C5_NoTenantLost ==
  /\ \A t \in issued \ deleted : contain_tenant(t)
  /\ (mlast.op = "get_tenant" /\ mlast.id \in issued \ deleted) => mlast.status = "ok"

\* the last element of a queue
Newest(q) == q[Len(q)]

\* C25: get_tenant(id) for an id that is not cached and has persisted state
\* constructs the store from the tenant's file, inserts it as the newest cache
\* entry, evicting and persisting the oldest when the cache is full, and
\* returns it; the tenant is cached after the call, and get_tenant(id) on a
\* cached tenant returns the cached store and loads nothing.
C25_GetTenantReloads ==
  [][\A t \in TenantIds :
       (mlast'.op = "get_tenant" /\ mlast'.id = t) =>
         /\ (t \notin DOMAIN storage_ /\ files[t].exists) =>
              /\ mlast'.status = "ok" /\ mlast'.loaded
              /\ t \in DOMAIN storage_'
              /\ storage_'[t] = Construct(Dim, metric_, files[t]).db
              /\ Newest(cache_queue_') = t
              /\ IF Cardinality(DOMAIN storage_) >= max_capacity_
                 THEN /\ DOMAIN storage_' = (DOMAIN storage_ \ {Head(cache_queue_)}) \cup {t}
                      /\ cache_queue_' = Append(Tail(cache_queue_), t)
                      /\ files' = [files EXCEPT ![Head(cache_queue_)] =
                                     save_document(storage_[Head(cache_queue_)])]
                 ELSE /\ DOMAIN storage_' = DOMAIN storage_ \cup {t}
                      /\ cache_queue_' = Append(cache_queue_, t)
                      /\ files' = files
         /\ t \in DOMAIN storage_ =>
              /\ mlast'.status = "ok" /\ ~mlast'.loaded
              /\ UNCHANGED <<storage_, cache_queue_, files>>]_vars

\* C26: get_tenant(id) and delete_tenant(id) with an id that is neither cached
\* nor persisted fail with a not-found error and leave the cached set, the
\* eviction order and the persisted state as they were.
C26_NotFoundChangesNothing ==
  [][\A t \in TenantIds :
       (/\ mlast'.op \in {"get_tenant", "delete_tenant"} /\ mlast'.id = t
        /\ t \notin DOMAIN storage_ /\ ~files[t].exists) =>
         /\ mlast'.status = "not_found"
         /\ UNCHANGED <<storage_, cache_queue_, files, dir_exists>>]_vars

C26_Witness ==
  /\ mlast.op = "delete_tenant" /\ mlast.status = "not_found"
  /\ mlast.id \in issued
  /\ Cardinality(Cached) = 2
  /\ \E t \in TenantIds : files[t].exists

C26_WitnessGet ==
  /\ mlast.op = "get_tenant" /\ mlast.status = "not_found"
  /\ mlast.id \notin issued
  /\ Cached # {}
  /\ \E t \in TenantIds : files[t].exists

\* C29: after the manager's save() every cached tenant has a tenant file that
\* holds its records and additional data, so that a manager constructed on the
\* same root afterwards finds the tenant and get_tenant gives a store with
\* equal records and equal additional data; the files of the tenants that are
\* not cached, the cached set and the eviction order are as before.
C29_ManagerSave ==
  [][mlast'.op = "save" =>
       /\ UNCHANGED <<storage_, cache_queue_>>
       /\ \A t \in TenantIds :
            IF t \in DOMAIN storage_
            THEN /\ files'[t].exists
                 /\ Construct(Dim, metric_, files'[t]).ok
                 /\ Construct(Dim, metric_, files'[t]).db.data_ = storage_[t].data_
                 /\ Construct(Dim, metric_, files'[t]).db.additional_data_
                      = storage_[t].additional_data_
            ELSE files'[t] = files[t]]_vars

\* C35: the cache map and the eviction queue stay consistent: after every
\* call of create_tenant, get_tenant, delete_tenant and save, the failing
\* calls included, the queue holds exactly the cached ids, each once, and
\* every cached entry holds a store.
C35_QueueMatchesCache ==
  /\ \A t \in DOMAIN storage_ : storage_[t].embedding_dim_ = Dim
  /\ {cache_queue_[i] : i \in 1..Len(cache_queue_)} = DOMAIN storage_
  /\ Len(cache_queue_) = Cardinality(DOMAIN storage_)
  /\ \A i, j \in 1..Len(cache_queue_) : cache_queue_[i] = cache_queue_[j] => i = j

\* a delete_tenant that threw after it had dropped a tenant from a cache of two
C35_Witness ==
  /\ mlast.op = "delete_tenant" /\ mlast.status = "remove_failed"
  /\ Len(cache_queue_) = 1
  /\ files[mlast.id].exists

\* a create_tenant that threw on a full cache
C35_WitnessEviction ==
  /\ mlast.op = "create_tenant" /\ mlast.status = "save_failed"
  /\ Len(cache_queue_) = MaxCapacity

C36_WitnessCreate ==
  /\ mlast.op = "create_tenant" /\ mlast.status = "save_failed"
  /\ mlast.named \in DOMAIN storage_
  /\ ~files[mlast.named].exists

\* C37: handles stay coherent across eviction: what was written through a
\* handle that get_tenant(id) returned is what the handle of a later
\* get_tenant(id) shows, whatever create_tenant and get_tenant calls evicted
\* and reloaded the tenant in between.
C37_HandlesCoherent ==
  (handle.id \in DOMAIN storage_ /\ handle.written # "unset") =>
    /\ storage_[handle.id].additional_data_ = handle.written
    /\ HandleObject.additional_data_ = storage_[handle.id].additional_data_

\* C38: a tenant reloaded by get_tenant keeps the configuration it was created
\* with: the dimension, the distance mode and the metric strategy that
\* set_default_metric made the default of new tenants.
C38_ReloadKeepsConfiguration ==
  (mlast.op = "get_tenant" /\ mlast.status = "ok" /\ mlast.loaded) =>
    /\ storage_[mlast.id].embedding_dim_ = NewTenantDB.embedding_dim_
    /\ storage_[mlast.id].metric_ = NewTenantDB.metric_
    /\ storage_[mlast.id].metric_strategy_ = NewTenantDB.metric_strategy_

\* C32: a create_tenant or get_tenant call that does not overflow the cache
\* writes nothing: no tenant file appears and a missing storage root is not
\* created.  A tenant file is written only by the call that evicts the tenant
\* and by save(), and the storage root exists from the first such write on.
C32_NoImplicitPersistence ==
  [][/\ (/\ mlast'.op \in {"create_tenant", "get_tenant"}
         /\ \/ Cardinality(DOMAIN storage_) < max_capacity_
            \/ mlast'.id \in DOMAIN storage_) =>
          UNCHANGED <<files, dir_exists>>
     /\ \A t \in TenantIds :
          (files'[t].exists /\ files'[t] # files[t]) =>
            \/ mlast'.op = "save" /\ t \in DOMAIN storage_
            \/ /\ mlast'.op \in {"create_tenant", "get_tenant"}
               /\ mlast'.evicted = t /\ t = Head(cache_queue_)
               /\ Cardinality(DOMAIN storage_) >= max_capacity_
     /\ (~dir_exists /\ dir_exists') =>
          (mlast'.op = "save" \/ mlast'.evicted # NoTenant)
     /\ (\E t \in TenantIds : files'[t].exists) => dir_exists']_vars

\* a tenant is loaded into a cache that has room: nothing is written
C32_Witness ==
  /\ mlast.op = "get_tenant" /\ mlast.loaded /\ mlast.evicted = NoTenant
  /\ Cardinality(Cached) = MaxCapacity
  /\ files[mlast.id].exists

\* tenants were created and the storage root does not exist yet
C32_WitnessNoRoot ==
  /\ mlast.op = "create_tenant" /\ mlast.evicted = NoTenant
  /\ Cardinality(Cached) = MaxCapacity
  /\ ~dir_exists

(***************************************************************************)
(* Properties of managers over one storage root, checked under RootSpec     *)
(***************************************************************************)
\* C27: contain_tenant(id) is true exactly when the tenant is cached or a
\* tenant file for id exists under the storage root, whichever manager wrote
\* it; the call loads nothing and leaves the cache, the eviction order and the
\* files as they were.
C27_ContainTenant ==
  [][\A t \in TenantIds :
       (mlast'.op = "contain_tenant" /\ mlast'.id = t) =>
         /\ mlast'.result = (t \in DOMAIN storage_ \/ files[t].exists)
         /\ UNCHANGED <<storage_, cache_queue_, files, dir_exists>>]_vars

\* a tenant file written by an earlier manager: nothing was deleted, a tenant
\* was created, and the cache is empty
C27_Witness ==
  /\ mlast.op = "contain_tenant" /\ mlast.result
  /\ deleted = {} /\ Cached = {}
  /\ files[mlast.id].exists

C27_WitnessAbsent ==
  /\ mlast.op = "contain_tenant" /\ ~mlast.result
  /\ mlast.id \in issued \ deleted
  /\ Cached # {}

\* C28: once delete_tenant(id) has succeeded the tenant is not cached and has
\* no tenant file, contain_tenant(id) is false and get_tenant(id) fails with
\* not-found, on the manager that deleted it and on every later manager over
\* the same root, whatever create_tenant, get_tenant, eviction and save did
\* since.
C28_DeletedIsTerminal ==
  \A t \in deleted :
    /\ t \notin Cached
    /\ ~files[t].exists
    /\ ~contain_tenant(t)
    /\ (mlast.op = "contain_tenant" /\ mlast.id = t) => ~mlast.result
    /\ (mlast.op = "get_tenant" /\ mlast.id = t) => mlast.status = "not_found"

\* a later manager (the cache is empty though a tenant that was not deleted
\* exists) is asked for a deleted tenant
C28_Witness ==
  /\ mlast.op = "get_tenant" /\ mlast.id \in deleted
  /\ issued \ deleted # {} /\ Cached = {}
  /\ \E t \in TenantIds : files[t].exists

C28_WitnessSameManager ==
  /\ mlast.op = "get_tenant" /\ mlast.id \in deleted
  /\ Cardinality(Cached) = 2
  /\ \E t \in TenantIds : files[t].exists

(***************************************************************************)
(* Properties of the manager's constructor, checked under CtorSpec          *)
(***************************************************************************)
\* C30: constructing a manager with capacity <= 0, with dimension <= 0 or with
\* an empty storage root fails and gives no manager; a manager that was
\* constructed has the capacity and the root it was given, and no call made
\* on it changes them.
C30_ManagerConfiguration ==
  [][IF mlast'.op = "MultiTenantNanoVDB"
     THEN /\ (\/ mlast'.max_capacity <= 0
              \/ mlast'.embedding_dim <= 0
              \/ mlast'.storage_dir = "") =>
               /\ mlast'.status = "error"
               /\ UNCHANGED <<max_capacity_, storage_dir_, storage_, cache_queue_, files>>
          /\ mlast'.status = "ok" =>
               /\ max_capacity_' = mlast'.max_capacity
               /\ storage_dir_' = mlast'.storage_dir
          /\ max_capacity_' > 0 /\ storage_dir_' # ""
     ELSE UNCHANGED <<max_capacity_, storage_dir_>>]_vars

\* a manager is constructed over a root that holds tenant files
C30_Witness ==
  /\ mlast.op = "MultiTenantNanoVDB" /\ mlast.status = "ok"
  /\ mlast.max_capacity = MaxCapacity /\ max_capacity_ = MaxCapacity
  /\ Cached = {}
  /\ \E t \in TenantIds : files[t].exists

C30_WitnessFails ==
  /\ mlast.op = "MultiTenantNanoVDB" /\ mlast.status = "error"
  /\ mlast.max_capacity > 0 /\ mlast.embedding_dim > 0 /\ mlast.storage_dir = ""
  /\ Cached # {}

====
